---- MODULE Spec2Model ----
(***************************************************************************)
(* rotth: lowering of the HIR item mapping to the flat LIR instruction     *)
(* sequence (src/src/lir.rs), constant folding through the evaluator, and  *)
(* the run-time behaviour of the assembly the emitter writes for each      *)
(* instruction (src/src/emit.rs).                                          *)
(*                                                                         *)
(* A 64-bit word is written as the integer of least magnitude in its       *)
(* residue class modulo 2^64 (its two's-complement reading); the inputs    *)
(* keep every intermediate value far from 2^63.                            *)
(***************************************************************************)
EXTENDS Integers, Sequences, FiniteSets, TLC

VARIABLES
    items,          \* the item mapping handed to Compiler::compile
    pc,             \* "start", "lowering", "done", "panic", "overflow"
    coms,           \* the Compiler values alive, outermost first
    ctl,            \* the pending continuations of the lowering, innermost first
    ret,            \* the IConst returned by the last compile_const
    evals,          \* the calls made to the evaluator during this run
    run,            \* "first" or "second" run of compile on the same items
    first,          \* what the first run returned
    ops,            \* the instruction sequence the generated program was emitted from
    ip,             \* index of the next instruction block of the generated program
    stack,          \* the operand stack (the native stack), top first
    ret_stack,      \* the words stored in the return stack, by slot
    ret_stack_rsp,  \* the return stack's cursor, as a slot index
    locals_stack_sp,    \* the locals cursor, in slots
    escaping_stack_sp,  \* the escaping cursor, in slots
    argc,           \* the argc cell
    argv,           \* the argv cell: the operand stack's depth when it was set
    printed,        \* the arguments given to the extern print, in order
    status,         \* "off", "boot", "running" or "exited"
    exit_code,      \* the word handed to the exit system call
    source,         \* the source text, as its whitespace-separated lexemes
    tokens,         \* the tokens lexed so far
    parsed,         \* what the parser made of the tokens
    sink,           \* the assembly lines written to the output sink
    emit_strings,   \* the string pool handed to the code generator
    shadow          \* history: what Call and Bind put on the return stack, latest first

cvars == <<items, pc, coms, ctl, ret, evals, run, first>>
mvars == <<locals_stack_sp, escaping_stack_sp>>
pvars == <<source, tokens, parsed>>
svars == <<sink, emit_strings>>
hvars == <<shadow>>
rvars == <<ops, ip, stack, ret_stack, ret_stack_rsp, mvars, argc, argv, printed, status,
           exit_code, pvars, svars, hvars>>
vars == <<items, pc, coms, ctl, ret, evals, run, first,
          ops, ip, stack, ret_stack, ret_stack_rsp, mvars, argc, argv, printed, status,
          exit_code, pvars, svars, hvars>>

----------------------------------------------------------------------------
(* Bounds of the model. *)

\* the most AST nodes in a generated procedure body
MaxNodes == 3
\* the longest generated body of literals and intrinsics only
MaxFlat == 2
\* the most loops in the body of the procedure with many labels
MaxRep == 6
\* the most Compiler values alive at once before the host stack is taken as exhausted
MaxComs == 4
\* the most command-line arguments of the generated program
MaxArgc == 2
\* the longest generated instruction sequence handed to the code generator
MaxOps == 2

----------------------------------------------------------------------------
(* HIR values: src/src/hir.rs *)

U64(n) == [ty |-> "U64", u |-> n]
I64(n) == [ty |-> "I64", i |-> n]
Bool(x) == [ty |-> "Bool", b |-> x]
Str(s) == [ty |-> "Str", s |-> s]

Literal(c) == [k |-> "Literal", c |-> c]
Word(w) == [k |-> "Word", w |-> w]
Intrinsic(i) == [k |-> "Intrinsic", i |-> i]
If(truth, lie) == [k |-> "If", truth |-> truth, lie |-> lie]
While(cond, body) == [k |-> "While", cond |-> cond, body |-> body]
Bind(bindings, body) == [k |-> "Bind", bindings |-> bindings, body |-> body]

\* Binding
BindName(name, t) == [bind |-> "Bind", name |-> name, ty |-> t]
BindIgnore == [bind |-> "Ignore"]

\* Option<Vec<AstNode>>
None == [some |-> FALSE]
Some(v) == [some |-> TRUE, v |-> v]

Proc(body, needed) == [top |-> "Proc", body |-> body, needed |-> needed]
Const(body, ty, needed) == [top |-> "Const", body |-> body, ty |-> ty, needed |-> needed]

\* the intrinsics compile_body matches on, CompStop apart
Intrinsics ==
    {"Drop", "Dup", "Swap", "Over", "ReadU8", "WriteU8", "PtrAdd", "PtrSub",
     "Add", "Sub", "Divmod", "Mul", "Eq", "Ne", "Lt", "Le", "Gt", "Ge",
     "Dump", "Print", "PutC"}


----------------------------------------------------------------------------
(* LIR instructions: src/src/lir.rs, Op *)

Op0(name) == [op |-> name]
Push(c) == [op |-> "Push", c |-> c]
PushStr(i) == [op |-> "PushStr", i |-> i]
ProcOp(l) == [op |-> "Proc", l |-> l]
Label(l) == [op |-> "Label", l |-> l]
Jump(l) == [op |-> "Jump", l |-> l]
JumpF(l) == [op |-> "JumpF", l |-> l]
Call(p) == [op |-> "Call", p |-> p]
JumpT(l) == [op |-> "JumpT", l |-> l]
UseBinding(offset) == [op |-> "UseBinding", offset |-> offset]
ReserveEscaping(n) == [op |-> "ReserveEscaping", n |-> n]
ReserveLocals(n) == [op |-> "ReserveLocals", n |-> n]
FreeLocals(n) == [op |-> "FreeLocals", n |-> n]
Return == Op0("Return")
Exit == Op0("Exit")

\* ComConst
Compiled(i) == [k |-> "Compiled", i |-> i]
NotCompiled(c) == [k |-> "NotCompiled", c |-> c]

\* Compiler::new
new ==
    [label |-> 0, current_name |-> "", result |-> <<>>,
     consts |-> <<>>, strings |-> <<>>]

\* Compiler::with_consts_and_strings
with_consts_and_strings(consts, strings) ==
    [label |-> 0, current_name |-> "", result |-> <<>>,
     consts |-> consts, strings |-> strings]

\* Compiler::emit
emit(com, op) == [com EXCEPT !.result = Append(@, op)]

\* Compiler::gen_label: the label and the compiler after the call
gen_label_reuse(com) ==
    [res |-> "." \o com.current_name \o ToString(com.label), com |-> com]

gen_label(com) ==
    [res |-> "." \o com.current_name \o ToString(com.label),
     com |-> [com EXCEPT !.label = @ + 1]]

\* Compiler::is_const
is_const(com, w) == w \in DOMAIN com.consts

\* the procedures compile lowers: the filter_map over procs
needed_procs_all(its) == {n \in DOMAIN its : its[n].top = "Proc"}

needed_procs(its) == {n \in DOMAIN its : its[n].top = "Proc" /\ its[n].needed}

\* the fold cache compile starts from: the filter_map over consts
needed_consts(its) ==
    LET ns == {n \in DOMAIN its : its[n].top = "Const" /\ its[n].needed}
    IN  [n \in ns |-> NotCompiled([body |-> its[n].body, ty |-> its[n].ty])]

\* the orders in which a HashMap of the names S may be iterated
Orders(S) ==
    {s \in [1..Cardinality(S) -> S] : \A i, j \in DOMAIN s : s[i] = s[j] => i = j}

\* the instruction compile_body emits for an intrinsic other than CompStop
IntrinsicOp_swapped(i) ==
    CASE i = "PtrAdd" -> Op0("Add")
      [] i = "PtrSub" -> Op0("Sub")
      [] i = "Add" -> Op0("Sub")
      [] i = "Sub" -> Op0("Add")
      [] OTHER -> Op0(i)

IntrinsicOp(i) ==
    CASE i = "Drop" -> Op0("Drop")
      [] i = "Dup" -> Op0("Dup")
      [] i = "Swap" -> Op0("Swap")
      [] i = "Over" -> Op0("Over")
      [] i = "ReadU8" -> Op0("ReadU8")
      [] i = "WriteU8" -> Op0("WriteU8")
      [] i = "PtrAdd" -> Op0("Add")
      [] i = "PtrSub" -> Op0("Sub")
      [] i = "Add" -> Op0("Add")
      [] i = "Sub" -> Op0("Sub")
      [] i = "Divmod" -> Op0("Divmod")
      [] i = "Mul" -> Op0("Mul")
      [] i = "Eq" -> Op0("Eq")
      [] i = "Ne" -> Op0("Ne")
      [] i = "Lt" -> Op0("Lt")
      [] i = "Le" -> Op0("Le")
      [] i = "Gt" -> Op0("Gt")
      [] i = "Ge" -> Op0("Ge")
      [] i = "Dump" -> Op0("Dump")
      [] i = "Print" -> Op0("Print")
      [] i = "PutC" -> Op0("PutC")

\* continuations of the lowering
BodyK(body) == [fn |-> "compile_body", body |-> body]
ProcK == [fn |-> "compile_proc"]
CompileK(procs) == [fn |-> "compile", procs |-> procs]
PushK == [fn |-> "push_const"]
WhileCondK(cond_label, end_label, body) ==
    [fn |-> "while_cond", cond_label |-> cond_label, end_label |-> end_label,
     body |-> body]
WhileBodyK(cond_label, end_label) ==
    [fn |-> "while_body", cond_label |-> cond_label, end_label |-> end_label]
CondTruthK(lie_label, lie) == [fn |-> "cond_truth", lie_label |-> lie_label, lie |-> lie]
CondLieK(end_label) == [fn |-> "cond_lie", end_label |-> end_label]
ConstK(name, body, ty) == [fn |-> "compile_const", name |-> name, body |-> body, ty |-> ty]
RetryK(name, body, ty) == [fn |-> "retry_const", name |-> name, body |-> body, ty |-> ty]

Top == coms[Len(coms)]
SetTop(c) == [coms EXCEPT ![Len(coms)] = c]
Lowering == pc = "lowering" /\ ctl # <<>>
K == Head(ctl)
InBody == Lowering /\ K.fn = "compile_body" /\ K.body # <<>>
Node == Head(K.body)
\* the continuations once the node at hand is taken off its block
Rest == <<BodyK(Tail(K.body))>> \o Tail(ctl)

----------------------------------------------------------------------------
(* The evaluator (crate::eval::eval): its source is not part of src/; it is  *)
(* taken from its description as an interpreter of the instruction sequence  *)
(* that yields the word on top of the stack at Exit, or the name it is       *)
(* blocked on when it meets a call.                                          *)

\* IConst::bytes
bytes(c) ==
    CASE c.ty = "Bool" -> IF c.b THEN 1 ELSE 0
      [] c.ty = "U64" -> c.u
      [] c.ty = "I64" -> c.i

Ok(w) == [ok |-> TRUE, bytes |-> w]
Err(req) == [ok |-> FALSE, req |-> req]

LabelAt(code, l) == CHOOSE i \in 1..Len(code) : code[i] = Label(l)

RECURSIVE EvalFrom(_, _, _)
EvalFrom(code, i, st) ==
    LET o == code[i]
        a == st[2]
        b == st[1]
        bin(w) == EvalFrom(code, i + 1, <<w>> \o Tail(Tail(st)))
    IN  CASE o.op = "Push" -> EvalFrom(code, i + 1, <<bytes(o.c)>> \o st)
          [] o.op = "Drop" -> EvalFrom(code, i + 1, Tail(st))
          [] o.op = "Dup" -> EvalFrom(code, i + 1, <<b>> \o st)
          [] o.op = "Add" -> bin(a + b)
          [] o.op = "Sub" -> bin(a - b)
          [] o.op = "Mul" -> bin(a * b)
          [] o.op = "Eq" -> bin(IF a = b THEN 1 ELSE 0)
          [] o.op = "Ne" -> bin(IF a # b THEN 1 ELSE 0)
          [] o.op = "Label" -> EvalFrom(code, i + 1, st)
          [] o.op = "Dump" -> EvalFrom(code, i + 1, st)
          [] o.op = "Jump" -> EvalFrom(code, LabelAt(code, o.l), st)
          [] o.op = "JumpF" ->
                IF b = 0 THEN EvalFrom(code, LabelAt(code, o.l), Tail(st))
                ELSE EvalFrom(code, i + 1, Tail(st))
          [] o.op = "Call" -> Err(o.p)
          [] o.op = "Exit" -> Ok(b)

eval(code, strings) == EvalFrom(code, 1, <<>>)

\* compile_const: the immediate built from the evaluator's word and the declared type
const_of(ty, w) ==
    CASE ty = "Bool" -> Bool(w # 0)
      [] ty = "U64" -> U64(w)
      [] ty = "I64" -> I64(w)

----------------------------------------------------------------------------
(* The inputs: item mappings. *)

Add == Intrinsic("Add")
CompStop == Intrinsic("CompStop")
ConstN == Const(<<Literal(U64(2)), Literal(U64(3)), Add>>, "U64", TRUE)

Atoms ==
    {Literal(U64(1)), CompStop, Word("N"), Word("f"), Literal(Str("s"))}

RECURSIVE Bodies(_), Nodes(_)
\* the nodes made of exactly m nodes, and the blocks made of exactly n
Nodes(m) ==
    (IF m = 1 THEN Atoms ELSE {})
    \cup {If(t, None) : t \in Bodies(m - 1)}
    \cup UNION {{If(t, Some(e)) : t \in Bodies(i), e \in Bodies(m - 1 - i)} : i \in 0..(m - 1)}
    \cup UNION {{While(c, b) : c \in Bodies(i), b \in Bodies(m - 1 - i)} : i \in 0..(m - 1)}

Bodies(n) ==
    IF n = 0 THEN {<<>>}
    ELSE UNION {{<<x>> \o r : x \in Nodes(m), r \in Bodies(n - m)} : m \in 1..n}

TreePrograms ==
    {("main" :> Proc(b, TRUE)) @@ ("N" :> ConstN) :
        b \in UNION {Bodies(n) : n \in 0..MaxNodes}}

FlatAtoms ==
    {Literal(U64(1)), Literal(U64(2)), Literal(Bool(TRUE))}
    \cup {Intrinsic(i) : i \in Intrinsics}

FlatPrograms ==
    {("main" :> Proc(b, TRUE)) : b \in UNION {[1..n -> FlatAtoms] : n \in 0..MaxFlat}}

ItemNames == {"main", "f", "N", "M"}

ItemPrograms ==
    {("main" :> Proc(m, nd["main"])) @@ ("f" :> Proc(f, nd["f"]))
        @@ ("N" :> [ConstN EXCEPT !.needed = nd["N"]])
        @@ ("M" :> [c EXCEPT !.needed = nd["M"]]) :
        m \in {<<Word("N"), Word("M"), Word("N")>>,
               <<Literal(Str("a")), Word("f"), Word("M")>>},
        f \in {<<Word("M")>>, <<Literal(Str("b")), Word("N")>>},
        c \in {Const(<<Word("N"), Literal(U64(1)), Add>>, "I64", TRUE),
               Const(<<Word("N"), Word("N"), Intrinsic("Eq")>>, "Bool", TRUE)},
        nd \in [ItemNames -> BOOLEAN]}

Loop == While(<<>>, <<>>)
ManyLabels ==
    {("f" :> Proc([i \in 1..k |-> Loop], TRUE)) @@ ("f1" :> Proc(<<If(<<>>, None)>>, TRUE)) :
        k \in 0..MaxRep}

\* proc main do 1 2 + print end
ExampleAdd ==
    "main" :> Proc(<<Literal(U64(1)), Literal(U64(2)), Add, Intrinsic("Print")>>, TRUE)

\* proc main do true if 1 else 2 end drop end
ExampleIf ==
    "main" :> Proc(<<Literal(Bool(TRUE)),
                     If(<<Literal(U64(1))>>, Some(<<Literal(U64(2))>>)),
                     Intrinsic("Drop")>>, TRUE)

\* const N : uint do 2 3 + end, referenced from main
ExampleConst == ("main" :> Proc(<<Word("N")>>, TRUE)) @@ ("N" :> ConstN)

\* proc main do 1 bind x : int do x end end
BindProgram ==
    "main" :> Proc(<<Literal(U64(1)), Bind(<<BindName("x", "I64")>>, <<Word("x")>>)>>, TRUE)

CyclicConst ==
    ("main" :> Proc(<<Word("C")>>, TRUE)) @@ ("C" :> Const(<<Word("C")>>, "U64", TRUE))

\* a constant whose body branches, folded inside a branch and before a loop
ControlConst ==
    ("main" :> Proc(<<Literal(Bool(TRUE)), If(<<Word("K")>>, None), Word("K"),
                      While(<<>>, <<>>)>>, TRUE))
    @@ ("K" :> Const(<<Literal(Bool(TRUE)),
                       If(<<Literal(U64(1))>>, Some(<<Literal(U64(2))>>))>>, "U64", TRUE))

\* main names an undefined word, a constant that is not needed and a procedure
LooseWords ==
    ("main" :> Proc(<<Word("g"), Word("N"), Word("f")>>, TRUE))
    @@ ("N" :> [ConstN EXCEPT !.needed = FALSE])
    @@ ("f" :> Proc(<<>>, TRUE))

\* the marker after a node and before another in every kind of block, each
\* construct followed by further nodes
StopProgram ==
    "main" :> Proc(<<If(<<Literal(U64(1)), CompStop, Word("f")>>,
                        Some(<<CompStop, Literal(U64(1))>>)),
                     While(<<CompStop, Word("f")>>,
                           <<Literal(U64(2)), CompStop, Literal(U64(1))>>),
                     Literal(U64(3)), CompStop, Word("f")>>, TRUE)

\* the same text twice in main, around a constant whose body holds a string
\* in a branch that is not taken
PoolProgram ==
    ("main" :> Proc(<<Literal(Str("s")), Word("K"), Literal(Str("s"))>>, TRUE))
    @@ ("K" :> Const(<<Literal(Bool(FALSE)), If(<<Literal(Str("t"))>>, None),
                       Literal(U64(7))>>, "U64", TRUE))

\* a constant of each declared type whose body leaves a word other than 0 and 1
TypedConsts ==
    ("main" :> Proc(<<Word("B"), Word("U"), Word("I")>>, TRUE))
    @@ ("B" :> Const(<<Literal(U64(2))>>, "Bool", TRUE))
    @@ ("U" :> Const(<<Literal(U64(2))>>, "U64", TRUE))
    @@ ("I" :> Const(<<Literal(U64(1)), Literal(U64(2)), Intrinsic("Sub")>>, "I64", TRUE))

Programs ==
    TreePrograms \cup FlatPrograms \cup ItemPrograms \cup ManyLabels
    \cup {ExampleAdd, ExampleIf, ExampleConst, BindProgram, CyclicConst, ControlConst,
          LooseWords, StopProgram, PoolProgram, TypedConsts}

----------------------------------------------------------------------------
(* Compiler::compile and what it calls: src/src/lir.rs *)

NotParsed == [state |-> "none"]
NoConst == [ty |-> "none"]
NoResult == [ops |-> <<>>, strings |-> <<>>]

\* compile up to its loop over the procedures (lines 64-100)
Compile ==
    /\ pc = "start"
    /\ \E procs \in Orders(needed_procs(items)) :
          ctl' = <<CompileK(procs)>>
    /\ coms' = <<emit(emit([new EXCEPT !.consts = needed_consts(items)],
                           Call("main")), Exit)>>
    /\ pc' = "lowering"
    /\ evals' = <<>>
    /\ UNCHANGED <<items, ret, run, first, rvars>>

\* one turn of the loop: compile_proc up to its call of compile_body (lines 102-115)
CompileProc ==
    /\ Lowering /\ K.fn = "compile" /\ K.procs # <<>>
    /\ LET name == Head(K.procs)
       IN  /\ coms' = SetTop(emit([Top EXCEPT !.label = 0, !.current_name = name],
                                  ProcOp(name)))
           /\ ctl' = <<BodyK(items[name].body), ProcK, CompileK(Tail(K.procs))>>
                     \o Tail(ctl)
    /\ UNCHANGED <<items, pc, ret, evals, run, first, rvars>>

\* compile_proc after compile_body (line 117)
ProcReturn ==
    /\ Lowering /\ K.fn = "compile_proc"
    /\ coms' = SetTop(emit(Top, Return))
    /\ ctl' = Tail(ctl)
    /\ UNCHANGED <<items, pc, ret, evals, run, first, rvars>>

\* the loop is over: compile returns (self.result, self.strings) (line 106)
CompileDone ==
    /\ Lowering /\ K.fn = "compile" /\ K.procs = <<>>
    /\ pc' = "done"
    /\ ctl' = <<>>
    /\ UNCHANGED <<items, coms, ret, evals, run, first, rvars>>

\* compile_body: the block is exhausted (line 166)
BodyEnd ==
    /\ Lowering /\ K.fn = "compile_body" /\ K.body = <<>>
    /\ ctl' = Tail(ctl)
    /\ UNCHANGED <<items, pc, coms, ret, evals, run, first, rvars>>

BodyLiteral_interned ==
    /\ InBody /\ Node.k = "Literal"
    /\ coms' = SetTop(
          IF Node.c.ty = "Str"
          THEN IF \E j \in DOMAIN Top.strings : Top.strings[j] = Node.c.s
               THEN emit(Top, PushStr((CHOOSE j \in DOMAIN Top.strings :
                                          Top.strings[j] = Node.c.s) - 1))
               ELSE emit([Top EXCEPT !.strings = Append(@, Node.c.s)],
                         PushStr(Len(Top.strings)))
          ELSE emit(Top, Push(Node.c)))
    /\ ctl' = Rest
    /\ UNCHANGED <<items, pc, ret, evals, run, first, rvars>>

\* compile_body: AstKind::Literal (lines 168-175)
BodyLiteral ==
    /\ InBody /\ Node.k = "Literal"
    /\ coms' = SetTop(
          IF Node.c.ty = "Str"
          THEN LET i == Len(Top.strings)
               IN  emit([Top EXCEPT !.strings = Append(@, Node.c.s)], PushStr(i))
          ELSE emit(Top, Push(Node.c)))
    /\ ctl' = Rest
    /\ UNCHANGED <<items, pc, ret, evals, run, first, rvars>>

\* a call of compile_const(name) on the innermost compiler of cs, to continue
\* with cont: the cache lookup and the lowering of the body (lines 120-128)
compile_const(cs, name, cont) ==
    LET self == cs[Len(cs)]
    IN  IF name \notin DOMAIN self.consts
        THEN pc' = "panic" /\ coms' = cs /\ ctl' = cont /\ ret' = ret
        ELSE IF self.consts[name].k = "Compiled"
        THEN pc' = pc /\ coms' = cs /\ ctl' = cont /\ ret' = self.consts[name].i
        ELSE IF Len(cs) >= MaxComs
        THEN pc' = "overflow" /\ coms' = cs /\ ctl' = cont /\ ret' = ret
        ELSE LET c == self.consts[name].c
             IN  /\ pc' = pc
                 /\ coms' = Append(cs, with_consts_and_strings(self.consts, self.strings))
                 /\ ctl' = <<BodyK(c.body), ConstK(name, c.body, c.ty)>> \o cont
                 /\ ret' = ret

\* compile_body: AstKind::Word naming a constant (lines 176-177)
BodyWordConst ==
    /\ InBody /\ Node.k = "Word" /\ is_const(Top, Node.w)
    /\ compile_const(coms, Node.w, <<PushK>> \o Rest)
    /\ UNCHANGED <<items, evals, run, first, rvars>>

\* compile_body: the push of what compile_const returned (line 178)
PushConst_call ==
    /\ Lowering /\ K.fn = "push_const"
    /\ coms' = SetTop(emit(Top, Call("N")))
    /\ ctl' = Tail(ctl)
    /\ UNCHANGED <<items, pc, ret, evals, run, first, rvars>>

PushConst ==
    /\ Lowering /\ K.fn = "push_const"
    /\ coms' = SetTop(emit(Top, Push(ret)))
    /\ ctl' = Tail(ctl)
    /\ UNCHANGED <<items, pc, ret, evals, run, first, rvars>>

ProcNamesOf(its) == {n \in DOMAIN its : its[n].top = "Proc"}

BodyWordCall_checked ==
    /\ InBody /\ Node.k = "Word" /\ ~is_const(Top, Node.w)
    /\ IF Node.w \in ProcNamesOf(items)
       THEN pc' = pc /\ coms' = SetTop(emit(Top, Call(Node.w))) /\ ctl' = Rest
       ELSE pc' = "panic" /\ coms' = coms /\ ctl' = ctl
    /\ UNCHANGED <<items, ret, evals, run, first, rvars>>

\* compile_body: any other AstKind::Word (line 180)
BodyWordCall ==
    /\ InBody /\ Node.k = "Word" /\ ~is_const(Top, Node.w)
    /\ coms' = SetTop(emit(Top, Call(Node.w)))
    /\ ctl' = Rest
    /\ UNCHANGED <<items, pc, ret, evals, run, first, rvars>>

\* compile_body: an intrinsic with an instruction of its own (lines 181-206)
BodyIntrinsic ==
    /\ InBody /\ Node.k = "Intrinsic" /\ Node.i # "CompStop"
    /\ coms' = SetTop(emit(Top, IntrinsicOp(Node.i)))
    /\ ctl' = Rest
    /\ UNCHANGED <<items, pc, ret, evals, run, first, rvars>>

BodyCompStop_skipped ==
    /\ InBody /\ Node.k = "Intrinsic" /\ Node.i = "CompStop"
    /\ ctl' = Rest
    /\ UNCHANGED <<items, pc, coms, ret, evals, run, first, rvars>>

\* compile_body: Intrinsic::CompStop returns from compile_body (line 207)
BodyCompStop ==
    /\ InBody /\ Node.k = "Intrinsic" /\ Node.i = "CompStop"
    /\ ctl' = Tail(ctl)
    /\ UNCHANGED <<items, pc, coms, ret, evals, run, first, rvars>>

\* compile_body: AstKind::Bind is todo!() (line 211)
BodyBind ==
    /\ InBody /\ Node.k = "Bind"
    /\ pc' = "panic"
    /\ UNCHANGED <<items, coms, ctl, ret, evals, run, first, rvars>>


\* compile_body: AstKind::While; compile_while up to the lowering of the
\* condition (lines 210, 217-220)
BodyWhile ==
    /\ InBody /\ Node.k = "While"
    /\ LET g1 == gen_label(Top)
           g2 == gen_label(g1.com)
       IN  /\ coms' = SetTop(emit(g2.com, Label(g1.res)))
           /\ ctl' = <<BodyK(Node.cond), WhileCondK(g1.res, g2.res, Node.body)>> \o Rest
    /\ UNCHANGED <<items, pc, ret, evals, run, first, rvars>>

\* compile_while between the condition and the body (lines 221-222)
WhileCond ==
    /\ Lowering /\ K.fn = "while_cond"
    /\ coms' = SetTop(emit(Top, JumpF(K.end_label)))
    /\ ctl' = <<BodyK(K.body), WhileBodyK(K.cond_label, K.end_label)>> \o Tail(ctl)
    /\ UNCHANGED <<items, pc, ret, evals, run, first, rvars>>

\* compile_while after the body (lines 223-224)
WhileBody_exit ==
    /\ Lowering /\ K.fn = "while_body"
    /\ coms' = SetTop(emit(emit(Top, Jump(K.end_label)), Label(K.end_label)))
    /\ ctl' = Tail(ctl)
    /\ UNCHANGED <<items, pc, ret, evals, run, first, rvars>>

WhileBody ==
    /\ Lowering /\ K.fn = "while_body"
    /\ coms' = SetTop(emit(emit(Top, Jump(K.cond_label)), Label(K.end_label)))
    /\ ctl' = Tail(ctl)
    /\ UNCHANGED <<items, pc, ret, evals, run, first, rvars>>

\* compile_body: AstKind::If; compile_cond up to the lowering of the truth
\* branch (lines 209, 228-232)
BodyIf ==
    /\ InBody /\ Node.k = "If"
    /\ LET g == gen_label(Top)
       IN  /\ coms' = SetTop(emit(g.com, JumpF(g.res)))
           /\ ctl' = <<BodyK(Node.truth), CondTruthK(g.res, Node.lie)>> \o Rest
    /\ UNCHANGED <<items, pc, ret, evals, run, first, rvars>>

\* compile_cond after the truth branch (lines 233-241)
CondTruth_early ==
    /\ Lowering /\ K.fn = "cond_truth"
    /\ IF K.lie.some
       THEN LET g == gen_label(Top)
            IN  /\ coms' = SetTop(emit(emit(g.com, Label(K.lie_label)), Jump(g.res)))
                /\ ctl' = <<BodyK(K.lie.v), CondLieK(g.res)>> \o Tail(ctl)
       ELSE /\ coms' = SetTop(emit(Top, Label(K.lie_label)))
            /\ ctl' = Tail(ctl)
    /\ UNCHANGED <<items, pc, ret, evals, run, first, rvars>>

CondTruth ==
    /\ Lowering /\ K.fn = "cond_truth"
    /\ IF K.lie.some
       THEN LET g == gen_label(Top)
            IN  /\ coms' = SetTop(emit(emit(g.com, Jump(g.res)), Label(K.lie_label)))
                /\ ctl' = <<BodyK(K.lie.v), CondLieK(g.res)>> \o Tail(ctl)
       ELSE /\ coms' = SetTop(emit(Top, Label(K.lie_label)))
            /\ ctl' = Tail(ctl)
    /\ UNCHANGED <<items, pc, ret, evals, run, first, rvars>>

\* compile_cond after the else branch (line 242)
CondLie ==
    /\ Lowering /\ K.fn = "cond_lie"
    /\ coms' = SetTop(emit(Top, Label(K.end_label)))
    /\ ctl' = Tail(ctl)
    /\ UNCHANGED <<items, pc, ret, evals, run, first, rvars>>

\* compile_const once the body is lowered: the sub-compiler gets its Exit and
\* hands its cache and pool back, and the evaluator runs (lines 129-133)
Lowered ==
    LET com == emit(Top, Exit)
        self == coms[Len(coms) - 1]
        code == com.result
        back == [self EXCEPT !.consts = com.consts, !.strings = com.strings]
    IN  [code |-> code, self |-> back, res |-> eval(code, back.strings)]

\* the evaluator returned a word: the constant is cached and returned
\* (lines 134-139, 161-162)
ConstFolded_uncached ==
    /\ Lowering /\ K.fn = "compile_const" /\ Lowered.res.ok
    /\ LET const_ == const_of(K.ty, Lowered.res.bytes)
       IN  /\ coms' = Append(SubSeq(coms, 1, Len(coms) - 2), Lowered.self)
           /\ ret' = const_
    /\ ctl' = Tail(ctl)
    /\ evals' = Append(evals, [name |-> K.name, code |-> Lowered.code, res |-> Lowered.res])
    /\ UNCHANGED <<items, pc, run, first, rvars>>

ConstFolded ==
    /\ Lowering /\ K.fn = "compile_const" /\ Lowered.res.ok
    /\ LET const_ == const_of(K.ty, Lowered.res.bytes)
           self == [Lowered.self EXCEPT !.consts[K.name] = Compiled(const_)]
       IN  /\ coms' = Append(SubSeq(coms, 1, Len(coms) - 2), self)
           /\ ret' = const_
    /\ ctl' = Tail(ctl)
    /\ evals' = Append(evals, [name |-> K.name, code |-> Lowered.code, res |-> Lowered.res])
    /\ UNCHANGED <<items, pc, run, first, rvars>>

\* the evaluator is blocked on a name: compile_const is called on it, to come
\* back to the lowering of the body (lines 140-141)
ConstBlocked ==
    /\ Lowering /\ K.fn = "compile_const" /\ ~Lowered.res.ok
    /\ compile_const(Append(SubSeq(coms, 1, Len(coms) - 2), Lowered.self),
                     Lowered.res.req,
                     <<RetryK(K.name, K.body, K.ty)>> \o Tail(ctl))
    /\ evals' = Append(evals, [name |-> K.name, code |-> Lowered.code, res |-> Lowered.res])
    /\ UNCHANGED <<items, run, first, rvars>>

\* compile is run once more on the same item mapping, from Compiler::new()
Again ==
    /\ pc = "done" /\ run = "first"
    /\ first' = [ops |-> Top.result, strings |-> Top.strings]
    /\ run' = "second"
    /\ pc' = "start"
    /\ coms' = <<>>
    /\ ctl' = <<>>
    /\ ret' = NoConst
    /\ evals' = <<>>
    /\ UNCHANGED <<items, rvars>>

Init ==
    /\ items \in Programs
    /\ pc = "start"
    /\ coms = <<>>
    /\ ctl = <<>>
    /\ ret = NoConst
    /\ evals = <<>>
    /\ run = "first"
    /\ first = NoResult
    /\ ops = <<>>
    /\ ip = 0
    /\ stack = <<>>
    /\ ret_stack = <<>>
    /\ ret_stack_rsp = 0
    /\ locals_stack_sp = 0
    /\ escaping_stack_sp = 0
    /\ argc = 0
    /\ argv = 0
    /\ printed = <<>>
    /\ status = "off"
    /\ exit_code = 0
    /\ source = <<>>
    /\ tokens = <<>>
    /\ parsed = NotParsed
    /\ sink = <<>>
    /\ emit_strings = <<>>
    /\ shadow = <<>>

Next ==
    \/ Compile
    \/ CompileProc
    \/ ProcReturn
    \/ CompileDone
    \/ BodyEnd
    \/ BodyLiteral
    \/ BodyWordConst
    \/ PushConst
    \/ BodyWordCall
    \/ BodyIntrinsic
    \/ BodyCompStop
    \/ BodyBind
    \/ BodyWhile
    \/ WhileCond
    \/ WhileBody
    \/ BodyIf
    \/ CondTruth
    \/ CondLie
    \/ ConstFolded
    \/ ConstBlocked
    \/ Again

Spec == Init /\ [][Next]_vars

----------------------------------------------------------------------------
(* What the claims are stated with. *)

Done == pc = "done"
\* the instruction sequence compile returns
Out == coms[1].result
Pool == coms[1].strings

ProcNames == {n \in DOMAIN items : items[n].top = "Proc"}
ConstNames == {n \in DOMAIN items : items[n].top = "Const"}
Reachable(S) == {n \in S : items[n].needed}

At(o) == {i \in DOMAIN Out : Out[i].op = o}
StartOf(name) == CHOOSE i \in DOMAIN Out : Out[i] = ProcOp(name)

IsCompStop(n) == n.k = "Intrinsic" /\ n.i = "CompStop"

\* the number of instructions the lowering scheme gives a block
RECURSIVE SpanOf(_)
SpanOf(body) ==
    IF body = <<>> THEN 0
    ELSE LET n == Head(body)
         IN  IF IsCompStop(n) THEN 0
             ELSE (CASE n.k = "If" ->
                          IF n.lie.some
                          THEN 4 + SpanOf(n.truth) + SpanOf(n.lie.v)
                          ELSE 2 + SpanOf(n.truth)
                     [] n.k = "While" -> 4 + SpanOf(n.cond) + SpanOf(n.body)
                     [] OTHER -> 1)
                  + SpanOf(Tail(body))

\* the segment of procedure name is Proc, as many instructions as the scheme
\* gives its body, Return
SegmentOf(name) ==
    /\ \E i \in DOMAIN Out : Out[i] = ProcOp(name)
    /\ LET s == StartOf(name)
           n == SpanOf(items[name].body)
       IN  /\ s + n + 1 <= Len(Out)
           /\ Out[s + n + 1] = Return
           /\ \A j \in 1..n : Out[s + j].op \notin {"Proc", "Return", "Exit"}

\* the label names declared at the places lo..hi of the sequence
LabelsIn(lo, hi) == {Out[j].l : j \in {x \in lo..hi : Out[x].op = "Label"}}

(* C1: compile returns Call("main"), Exit, then one contiguous segment
   Proc(name) .. Return for each procedure whose flag is true and for nothing
   else: a procedure whose flag is false and a constant contribute nothing. *)
C1_CompileShape ==
    Done =>
        LET n == Len(Out)
            P == At("Proc")
            R == At("Return")
        IN  /\ n >= 2 /\ Out[1] = Call("main") /\ Out[2] = Exit
            /\ {Out[i].l : i \in P} = Reachable(ProcNames)
            /\ Cardinality(P) = Cardinality(Reachable(ProcNames))
            /\ Cardinality(R) = Cardinality(P)
            /\ (P = {} => n = 2)
            /\ (P # {} => 3 \in P /\ n \in R)
            /\ \A i \in R : i < n => i + 1 \in P
            /\ \A i \in P : i > 3 => i - 1 \in R

C1_Witness ==
    /\ Done
    /\ "M" \in DOMAIN items
    /\ items["main"].needed /\ ~items["f"].needed
    /\ items["N"].needed /\ ~items["M"].needed
    /\ evals # <<>>

IsFlat(body) ==
    \A j \in DOMAIN body :
        \/ body[j].k = "Literal" /\ body[j].c.ty \in {"U64", "I64", "Bool"}
        \/ body[j].k = "Intrinsic" /\ body[j].i # "CompStop"

InstructionOf(n) ==
    IF n.k = "Literal" THEN Push(n.c)
    ELSE IF n.i = "PtrAdd" THEN Op0("Add")
    ELSE IF n.i = "PtrSub" THEN Op0("Sub")
    ELSE Op0(n.i)

(* C2: a procedure body of numeric/boolean literals and intrinsics other than
   comptime-stop lowers to Proc(name), one instruction per node in source
   order, Return; proc main do 1 2 + print end lowers to
   Call main, Exit, Proc main, Push U64(1), Push U64(2), Add, Print, Return. *)
C2_FlatLowering ==
    Done =>
        /\ \A name \in Reachable(ProcNames) :
              LET body == items[name].body
              IN  IsFlat(body) =>
                     /\ SegmentOf(name)
                     /\ \A j \in DOMAIN body :
                           Out[StartOf(name) + j] = InstructionOf(body[j])
        /\ (items = ExampleAdd =>
               Out = <<Call("main"), Exit, ProcOp("main"), Push(U64(1)), Push(U64(2)),
                       Op0("Add"), Op0("Print"), Return>>)

C2_Witness == Done /\ items = ExampleAdd

(* C4: no two Label instructions of the returned sequence carry the same
   name, whatever the (distinct) names of the reachable procedures. *)
C4_LabelsUnique ==
    Done =>
        \A i, j \in At("Label") : Out[i].l = Out[j].l => i = j

\* gen_label's format, for the claims
LabelName(name, n) == "." \o name \o ToString(n)

C5_Labels ==
    Done =>
        \A name \in Reachable(ProcNames) :
           /\ SegmentOf(name)
           /\ LET s == StartOf(name)
                  e == s + SpanOf(items[name].body) + 1
                  L == {x \in s..e : Out[x].op = "Label"}
                  n == Cardinality(L)
              IN  /\ LabelsIn(s, e) = {LabelName(name, c) : c \in 0..(n - 1)}
                  /\ \A x, y \in L : Out[x].l = Out[y].l => x = y
                  /\ (e = Len(Out) => coms[1].label = n)

C5_Step ==
    (pc = "lowering" /\ pc' = "lowering"
        /\ coms'[1].current_name = coms[1].current_name) =>
        /\ coms'[1].label >= coms[1].label
        /\ coms'[1].label <= coms[1].label + 2
        /\ (Len(coms) > 1 =>
               /\ coms'[1].label = coms[1].label
               /\ coms[Len(coms)].current_name = "")
        /\ (Len(coms') > Len(coms) => coms'[Len(coms')].label = 0)

(* C5: within the lowering of one procedure the label counter starts at 0,
   goes up by one for each label generated and is never reset or reused, also
   under nesting and across the folding of a constant, which runs on a
   counter and a procedure name of its own; the labels of one procedure are
   pairwise distinct. *)
C5_LabelCounter == []C5_Labels /\ [][C5_Step]_vars

C5_Witness ==
    /\ Done /\ items = ControlConst
    /\ coms[1].label = 3


\* every if of the block lowered from place i on has the shape of the scheme,
\* with labels of its own
RECURSIVE IfsOf(_, _, _, _)
IfsOf(body, i, lo, hi) ==
    IF body = <<>> \/ IsCompStop(Head(body)) THEN TRUE
    ELSE LET n == Head(body)
             next == IfsOf(Tail(body), i + SpanOf(<<n>>), lo, hi)
         IN  CASE n.k = "If" ->
                    LET t == SpanOf(n.truth)
                    IN  IF n.lie.some
                        THEN LET e == SpanOf(n.lie.v)
                                 L0 == Out[i].l
                                 L1 == Out[i + t + 1].l
                             IN  /\ Out[i].op = "JumpF"
                                 /\ Out[i + t + 1].op = "Jump"
                                 /\ Out[i + t + 2] = Label(L0)
                                 /\ Out[i + t + e + 3] = Label(L1)
                                 /\ L0 # L1
                                 /\ {L0, L1} \cap LabelsIn(lo, i + t + 1) = {}
                                 /\ {L0, L1} \cap LabelsIn(i + t + 3, i + t + e + 2) = {}
                                 /\ {L0, L1} \cap LabelsIn(i + t + e + 4, hi) = {}
                                 /\ IfsOf(n.truth, i + 1, lo, hi)
                                 /\ IfsOf(n.lie.v, i + t + 3, lo, hi)
                                 /\ next
                        ELSE LET L0 == Out[i].l
                             IN  /\ Out[i].op = "JumpF"
                                 /\ Out[i + t + 1] = Label(L0)
                                 /\ L0 \notin LabelsIn(lo, i + t)
                                 /\ L0 \notin LabelsIn(i + t + 2, hi)
                                 /\ IfsOf(n.truth, i + 1, lo, hi)
                                 /\ next
               [] n.k = "While" ->
                    /\ IfsOf(n.cond, i + 1, lo, hi)
                    /\ IfsOf(n.body, i + SpanOf(n.cond) + 2, lo, hi)
                    /\ next
               [] OTHER -> next

(* C6: if T end lowers to JumpF(L0), the lowering of T, Label(L0); if T else
   E end lowers to JumpF(L0), the lowering of T, Jump(L1), Label(L0), the
   lowering of E, Label(L1), with L0 # L1; the labels are the if's own: one
   without an else branch, two with one, as in
   proc main do true if 1 else 2 end drop end. *)
C6_IfLowering ==
    Done =>
        /\ \A name \in Reachable(ProcNames) :
              /\ SegmentOf(name)
              /\ LET s == StartOf(name)
                 IN  IfsOf(items[name].body, s + 1, s, s + SpanOf(items[name].body))
        /\ (items = ExampleIf =>
               /\ Out = <<Call("main"), Exit, ProcOp("main"), Push(Bool(TRUE)),
                          JumpF(".main0"), Push(U64(1)), Jump(".main1"),
                          Label(".main0"), Push(U64(2)), Label(".main1"),
                          Op0("Drop"), Return>>
               /\ Cardinality(At("Label")) = 2
               /\ coms[1].label = 2)

RECURSIVE HasIf(_, _)
\* the block holds, at any depth, an if with (else = TRUE) or without an else branch
HasIf(body, else) ==
    \E j \in DOMAIN body :
        \/ body[j].k = "If" /\ body[j].lie.some = else
        \/ body[j].k = "If" /\ HasIf(body[j].truth, else)
        \/ body[j].k = "If" /\ body[j].lie.some /\ HasIf(body[j].lie.v, else)
        \/ body[j].k = "While" /\ (HasIf(body[j].cond, else) \/ HasIf(body[j].body, else))

C6_Witness ==
    /\ Done
    /\ \E name \in Reachable(ProcNames) :
          LET body == items[name].body
          IN  /\ Len(body) = 1 /\ body[1].k = "If" /\ body[1].lie.some
              /\ HasIf(body[1].truth, FALSE)
              /\ HasIf(body[1].lie.v, TRUE)

\* every loop of the block lowered from place i on has the shape of the
\* scheme, its labels being the next two of procedure name's counter
RECURSIVE WhilesOf(_, _, _)
WhilesOf(body, i, name) ==
    IF body = <<>> \/ IsCompStop(Head(body)) THEN TRUE
    ELSE LET n == Head(body)
             next == WhilesOf(Tail(body), i + SpanOf(<<n>>), name)
         IN  CASE n.k = "While" ->
                    LET c == SpanOf(n.cond)
                        b == SpanOf(n.body)
                        L0 == Out[i].l
                        L1 == Out[i + c + 1].l
                    IN  /\ Out[i].op = "Label"
                        /\ Out[i + c + 1].op = "JumpF"
                        /\ Out[i + c + b + 2] = Jump(L0)
                        /\ Out[i + c + b + 3] = Label(L1)
                        /\ L0 # L1
                        /\ \E k \in 0..Len(Out) :
                              /\ L0 = LabelName(name, k)
                              /\ L1 = LabelName(name, k + 1)
                              /\ \A m \in 0..(k + 1) :
                                    LabelName(name, m) \notin
                                        LabelsIn(i + 1, i + c + b + 2)
                        /\ WhilesOf(n.cond, i + 1, name)
                        /\ WhilesOf(n.body, i + c + 2, name)
                        /\ next
               [] n.k = "If" ->
                    /\ WhilesOf(n.truth, i + 1, name)
                    /\ (n.lie.some => WhilesOf(n.lie.v, i + SpanOf(n.truth) + 3, name))
                    /\ next
               [] OTHER -> next

(* C7: while C do B end lowers to Label(L0), the lowering of C, JumpF(L1),
   the lowering of B, Jump(L0), Label(L1), with L0 # L1 and both labels
   generated before C and B are lowered, whatever C and B hold. *)
C7_WhileLowering ==
    Done =>
        \A name \in Reachable(ProcNames) :
           /\ SegmentOf(name)
           /\ WhilesOf(items[name].body, StartOf(name) + 1, name)

C7_Witness ==
    /\ Done
    /\ \E name \in Reachable(ProcNames) :
          LET body == items[name].body
          IN  /\ Len(body) = 1 /\ body[1].k = "While"
              /\ Len(body[1].cond) = 1 /\ body[1].cond[1].k = "While"
              /\ Len(body[1].body) = 1 /\ body[1].body[1].k = "If"

(* C8: in one compilation the evaluator runs at most once for each constant
   name; the value of the first fold is the one cached under the name in
   every compiler alive, and the one a later reference gets back. *)
C8_FoldOnce ==
    /\ \A i, j \in DOMAIN evals : evals[i].name = evals[j].name => i = j
    /\ \A k \in DOMAIN coms :
          \A n \in DOMAIN coms[k].consts :
             coms[k].consts[n].k = "Compiled" =>
                \E i \in DOMAIN evals :
                   /\ evals[i].name = n /\ evals[i].res.ok
                   /\ coms[k].consts[n].i = const_of(items[n].ty, evals[i].res.bytes)
    /\ (pc = "lowering" /\ ctl # <<>> /\ Head(ctl).fn = "push_const") =>
          \E n \in DOMAIN Top.consts : Top.consts[n] = Compiled(ret)

C8_Witness ==
    /\ Done
    /\ "M" \in DOMAIN items
    /\ \A n \in ItemNames : items[n].needed
    /\ items["main"].body = <<Word("N"), Word("M"), Word("N")>>
    /\ items["f"].body = <<Literal(Str("b")), Word("N")>>
    /\ Len(evals) = 2

\* every reference to a reachable constant in the block lowered from place i
\* on is one Push of the cached immediate
RECURSIVE ConstsOf(_, _)
ConstsOf(body, i) ==
    IF body = <<>> \/ IsCompStop(Head(body)) THEN TRUE
    ELSE LET n == Head(body)
             next == ConstsOf(Tail(body), i + SpanOf(<<n>>))
         IN  CASE n.k = "Word" ->
                    /\ (n.w \in Reachable(ConstNames) =>
                           /\ coms[1].consts[n.w].k = "Compiled"
                           /\ Out[i] = Push(coms[1].consts[n.w].i))
                    /\ next
               [] n.k = "If" ->
                    /\ ConstsOf(n.truth, i + 1)
                    /\ (n.lie.some => ConstsOf(n.lie.v, i + SpanOf(n.truth) + 3))
                    /\ next
               [] n.k = "While" ->
                    /\ ConstsOf(n.cond, i + 1)
                    /\ ConstsOf(n.body, i + SpanOf(n.cond) + 2)
                    /\ next
               [] OTHER -> next

(* C9: a word reference naming a reachable constant adds one instruction, a
   Push of the folded immediate, and nothing lowered from the constant's body
   (nor its Exit) is in the returned sequence; a reference to
   const N : uint do 2 3 + end gives Push U64(5) and no Add. *)
C9_ConstPush ==
    Done =>
        /\ At("Exit") = {2}
        /\ \A name \in Reachable(ProcNames) :
              /\ SegmentOf(name)
              /\ ConstsOf(items[name].body, StartOf(name) + 1)
        /\ (items = ExampleConst =>
               Out = <<Call("main"), Exit, ProcOp("main"), Push(U64(5)), Return>>)

C9_Witness == Done /\ items = ExampleConst /\ Len(evals) = 1

(* C10: two runs of compile on the same item mapping return the same
   instruction sequence and the same string pool. *)
C10_Deterministic ==
    (Done /\ run = "second") => (Out = first.ops /\ Pool = first.strings)

(* C11: when the evaluator signals that folding a constant A is blocked on a
   name X, compile_const folds X and goes on to lower and evaluate the body of
   A once more: the signal is never followed by the abort of the lowering at
   the cache lookup of X. *)
C11_BlockedRetry ==
    \A i \in DOMAIN evals : ~evals[i].res.ok => pc # "panic"

\* a step of compile_body at a word that is not a key of the fold cache
C12_Step ==
    (InBody /\ Node.k = "Word" /\ Node.w \notin DOMAIN needed_consts(items)) =>
        /\ coms' = SetTop([Top EXCEPT !.result = Append(@, Call(Node.w))])
        /\ ctl' = Rest
        /\ pc' = pc

\* the lowering aborts only at a bind block or in the fold of a constant
\* whose evaluation reported a name
C12_Aborts ==
    pc = "panic" =>
        \/ K.fn = "compile_body" /\ Node.k = "Bind"
        \/ K.fn = "retry_const" /\ evals # <<>> /\ ~evals[Len(evals)].res.ok

(* C12: a word that is not a key of the fold cache (a procedure, an
   undefined name, a constant dropped as not needed) lowers to exactly one
   Call carrying the name, with no check that the name exists and no failure
   at that step; the lowering of a procedure body is never aborted by such a
   word, and it is aborted only when the word stands in the body of a constant
   being folded, where the evaluator reports the name. *)
C12_WordCall == []C12_Aborts /\ [][C12_Step]_vars

\* compile has returned a sequence that calls an undefined name and a
\* constant dropped from the cache
C12_Witness ==
    /\ Done
    /\ \E i \in DOMAIN Out : Out[i].op = "Call" /\ Out[i].p \notin DOMAIN items
    /\ \E i \in DOMAIN Out :
          /\ Out[i].op = "Call" /\ Out[i].p \in ConstNames
          /\ ~items[Out[i].p].needed

(* C12 as stated: no word outside the fold cache ever makes the lowering
   fail. *)
C12_NeverFails ==
    pc = "panic" => (K.fn = "compile_body" /\ Node.k = "Bind")

\* the instruction names the lowering scheme gives a block: each block ends at
\* its first marker, and a construct is closed whatever its blocks hold
RECURSIVE KindsOf(_)
KindsOf(body) ==
    IF body = <<>> \/ IsCompStop(Head(body)) THEN <<>>
    ELSE LET n == Head(body)
         IN  (CASE n.k = "Literal" -> IF n.c.ty = "Str" THEN <<"PushStr">> ELSE <<"Push">>
                [] n.k = "Word" ->
                     IF n.w \in DOMAIN needed_consts(items) THEN <<"Push">> ELSE <<"Call">>
                [] n.k = "Intrinsic" -> <<IntrinsicOp(n.i).op>>
                [] n.k = "If" ->
                     <<"JumpF">> \o KindsOf(n.truth)
                     \o (IF n.lie.some
                         THEN <<"Jump", "Label">> \o KindsOf(n.lie.v) \o <<"Label">>
                         ELSE <<"Label">>)
                [] n.k = "While" ->
                     <<"Label">> \o KindsOf(n.cond) \o <<"JumpF">> \o KindsOf(n.body)
                     \o <<"Jump", "Label">>)
             \o KindsOf(Tail(body))

(* C13: in the segment of a lowered procedure the instructions are, in order,
   those of the nodes that precede the first comptime-stop marker of each
   block: nothing is emitted for a node after the marker in the same block,
   while the Return of the procedure, the labels and jumps of an enclosing
   if or while, and the nodes after that construct in the outer blocks are
   emitted. *)
C13_CompStop ==
    Done =>
        \A name \in Reachable(ProcNames) :
            LET s == StartOf(name)
                ks == <<"Proc">> \o KindsOf(items[name].body) \o <<"Return">>
            IN  /\ s + Len(ks) - 1 <= Len(Out)
                /\ \A j \in DOMAIN ks : Out[s + j - 1].op = ks[j]

\* the procedure with the marker inside a branch, an else branch, a loop
\* condition, a loop body and the procedure's own block has been lowered
C13_Witness ==
    /\ Done /\ items = StopProgram
    /\ Len(Out) = 15
    /\ Out[4].op = "JumpF" /\ Out[5] = Push(U64(1)) /\ Out[6].op = "Jump"
    /\ Out[11] = Push(U64(2)) /\ Out[14] = Push(U64(3)) /\ Out[15] = Return

\* the texts of the string literals the lowering scheme reaches in a block
RECURSIVE TextsOf(_)
TextsOf(body) ==
    IF body = <<>> \/ IsCompStop(Head(body)) THEN <<>>
    ELSE LET n == Head(body)
         IN  (CASE n.k = "Literal" -> IF n.c.ty = "Str" THEN <<n.c.s>> ELSE <<>>
                [] n.k = "If" ->
                     TextsOf(n.truth) \o (IF n.lie.some THEN TextsOf(n.lie.v) ELSE <<>>)
                [] n.k = "While" -> TextsOf(n.cond) \o TextsOf(n.body)
                [] OTHER -> <<>>)
             \o TextsOf(Tail(body))

IsPrefix(s, t) == Len(s) <= Len(t) /\ SubSeq(t, 1, Len(s)) = s
IsPushStr(o) == o.op = "PushStr"

\* in what compile returns, the PushStr instructions of a procedure index the
\* texts of its string literals, in order, and no index is used twice
C14_Final ==
    Done =>
        /\ \A i, j \in At("PushStr") : Out[i].i = Out[j].i => i = j
        /\ \A name \in Reachable(ProcNames) :
              LET s == StartOf(name)
                  n == SpanOf(items[name].body)
                  ps == SelectSeq(SubSeq(Out, s, s + n), IsPushStr)
                  ts == TextsOf(items[name].body)
              IN  /\ Len(ps) = Len(ts)
                  /\ \A j \in DOMAIN ps :
                        /\ ps[j].i >= 0 /\ ps[j].i < Len(Pool)
                        /\ Pool[ps[j].i + 1] = ts[j]

\* a step at a string literal appends the text and emits PushStr of the
\* length before; the pool of every compiler alive only grows, a sub-compiler
\* starts from the pool of its parent and hands its own back
C14_Step ==
    /\ (InBody /\ Node.k = "Literal" /\ Node.c.ty = "Str") =>
          coms' = SetTop([Top EXCEPT !.strings = Append(@, Node.c.s),
                                     !.result = Append(@, PushStr(Len(Top.strings)))])
    /\ (coms # <<>> /\ coms' # <<>>) =>
          /\ \A k \in DOMAIN coms \cap DOMAIN coms' :
                IsPrefix(coms[k].strings, coms'[k].strings)
          /\ IsPrefix(Top.strings, coms'[Len(coms')].strings)

(* C14: lowering a string literal appends one entry to the string pool and
   emits PushStr(i), i the length of the pool before the append; equal texts
   get distinct indices; the pool only grows, also across the folding of a
   constant; in the result every PushStr(i) has i below the length of the
   pool, and the pool holds the text of its literal at i. *)
C14_StringPool == []C14_Final /\ [][C14_Step]_vars

\* the same text lowered twice around a fold that added a text of its own
C14_Witness ==
    /\ Done /\ items = PoolProgram
    /\ Pool = <<"s", "t", "s">>
    /\ Out[4] = PushStr(0) /\ Out[5] = Push(U64(7)) /\ Out[6] = PushStr(2)

(* C17: lowering bind b1 .. bn do B end never aborts: it emits one Bind for
   each bound value on entry and as many Unbind on exit, and a word of B that
   names a binding lowers to UseBinding, so that the procedure of
   proc main do 1 bind x : int do x end end is lowered with one Bind and one
   Unbind and without a Call. *)
C17_BindLowering ==
    items = BindProgram =>
        /\ pc # "panic"
        /\ Done => /\ Cardinality(At("Bind")) = 1
                   /\ Cardinality(At("Unbind")) = 1
                   /\ At("Call") = {1}


(* C21: the word a reference to a folded constant pushes at run time is the
   word the evaluator returned for it, whatever the declared type: the
   immediate cached under a name carries the bits of the evaluator's result. *)
C21_Reinterpret ==
    \A k \in DOMAIN coms :
       \A n \in DOMAIN coms[k].consts :
          coms[k].consts[n].k = "Compiled" =>
             \A i \in DOMAIN evals :
                (evals[i].name = n /\ evals[i].res.ok) =>
                    bytes(coms[k].consts[n].i) = evals[i].res.bytes


\* the place of the Proc that opens the segment holding place i
ProcBefore(i) ==
    LET P == {x \in 1..i : Out[x].op = "Proc"}
    IN  IF P = {} THEN 0 ELSE CHOOSE x \in P : \A y \in P : y <= x

Jumps == At("Jump") \cup At("JumpF")
TargetsOf(i) == {j \in At("Label") : Out[j].l = Out[i].l}

(* C23: in the returned sequence every Jump and JumpF names exactly one
   Label instruction, and that Label is in the segment of the same procedure
   as the jump, also where a compile-stop marker ends a branch, a condition
   or a loop body early. *)
C23_JumpTargets ==
    Done =>
        \A i \in Jumps :
           /\ Cardinality(TargetsOf(i)) = 1
           /\ \A j \in TargetsOf(i) : ProcBefore(j) = ProcBefore(i)


\* the constants named at the top of a block, up to a compile-stop marker
RECURSIVE ConstWords(_)
ConstWords(body) ==
    IF body = <<>> \/ IsCompStop(Head(body)) THEN {}
    ELSE (IF Head(body).k = "Word" /\ Head(body).w \in Reachable(ConstNames)
          THEN {Head(body).w} ELSE {})
         \cup ConstWords(Tail(body))

\* every constant named in the body of a folded constant was evaluated before it
C24_DepsFirst ==
    \A i \in DOMAIN evals :
       \A w \in ConstWords(items[evals[i].name].body) :
          \E j \in 1..(i - 1) : evals[j].name = w /\ evals[j].res.ok

(* C24: folding ends for every set of reachable constants: the constants a
   body names are folded and cached before that body is evaluated, and a
   cycle of references among constants, a constant naming itself included,
   is rejected instead of nesting compile_const calls until the host stack
   is used up. *)
C24_FoldTerminates ==
    /\ C24_DepsFirst
    /\ pc # "overflow"

----------------------------------------------------------------------------
(* The generated program: the assembly src/src/emit.rs writes for each      *)
(* instruction, run from the process entry point.  An action is the block   *)
(* of one instruction; every block loads the registers it reads.            *)

\* resb of ret_stack
RetStackBytes == 65536
\* ret_stack_end, in 8-byte slots from ret_stack
RetStackEnd == RetStackBytes \div 8
\* resb of locals_stack and locals_stack_end
LocalsStackBytes == 65536
LocalsStackEnd == LocalsStackBytes \div 8
\* resb of escaping_stack and escaping_stack_end
EscapingStackBytes == 65536
EscapingStackEnd == EscapingStackBytes \div 8

\* the addresses the kernel may give the argument and environment strings
StringAddrs == {4104, 4117}

\* the operand stack the kernel hands to _start: argc, argv[0..argc-1], a
\* null word, the environment pointers, a null word
EntryStacks ==
    UNION {{<<n>> \o a \o <<0>> \o e \o <<0>> :
              a \in [1..n -> StringAddrs], e \in {<<>>, <<4130>>}} : n \in 1..MaxArgc}

\* the lowering of proc main do 1 2 + print end
OpsAdd ==
    <<Call("main"), Exit, ProcOp("main"), Push(U64(1)), Push(U64(2)),
      Op0("Add"), Op0("Print"), Return>>

\* main leaves a word of its own under the return address
OpsStatus ==
    <<Call("main"), Exit, ProcOp("main"), Push(U64(0)), Call("f"), Return,
      ProcOp("f"), Push(Bool(TRUE)), Push(I64(-1)), Op0("Add"), Op0("Print"), Return>>

\* calls nested three deep, operands handed down and a result handed up, the
\* innermost body binding and unbinding a value
OpsNest ==
    <<Call("main"), Exit, ProcOp("main"), Push(U64(5)), Call("f"), Op0("Print"), Return,
      ProcOp("f"), Push(U64(1)), Op0("Add"), Call("g"), Return,
      ProcOp("g"), Op0("Bind"), UseBinding(0), UseBinding(0), Op0("Add"), Op0("Unbind"),
      Return>>

\* three values bound and each used by its offset
OpsBinds ==
    <<Call("main"), Exit, ProcOp("main"), Push(U64(1)), Push(U64(2)), Push(U64(3)),
      Op0("Bind"), Op0("Bind"), Op0("Bind"),
      UseBinding(0), Op0("Print"), UseBinding(1), Op0("Print"), UseBinding(2), Op0("Print"),
      Op0("Unbind"), Op0("Unbind"), Op0("Unbind"), Return>>

\* a body that returns with a value still bound
OpsLeak ==
    <<Call("main"), Exit, ProcOp("main"), Push(U64(7)), Call("f"), Return,
      ProcOp("f"), Op0("Bind"), Return>>

\* main and the procedure it calls reserve whole slots of the locals and of
\* the escaping region, more than either holds, and give the locals back
OpsReserve ==
    <<Call("main"), Exit, ProcOp("main"), ReserveEscaping(65536), ReserveLocals(32768),
      Call("f"), FreeLocals(32768), Push(U64(0)), Return,
      ProcOp("f"), ReserveLocals(32768), ReserveLocals(8), ReserveEscaping(8),
      FreeLocals(32776), Return>>

\* the words compared: 0, 1, 2 and the word of all ones, 2^64 - 1, which is
\* written -1 as every word at or above 2^63 is written by its negative
\* representative
CmpWords == {-1, 0, 1, 2}

\* each comparison applied to left operand a and right operand b, the
\* result printed
OpsCompare(a, b) ==
    <<Call("main"), Exit, ProcOp("main"),
      Push(I64(a)), Push(I64(b)), Op0("Eq"), Op0("Print"),
      Push(I64(a)), Push(I64(b)), Op0("Ne"), Op0("Print"),
      Push(I64(a)), Push(I64(b)), Op0("Lt"), Op0("Print"),
      Push(I64(a)), Push(I64(b)), Op0("Le"), Op0("Print"),
      Push(I64(a)), Push(I64(b)), Op0("Gt"), Op0("Print"),
      Push(I64(a)), Push(I64(b)), Op0("Ge"), Op0("Print"),
      Return>>

RunPrograms ==
    {OpsAdd, OpsStatus, OpsNest, OpsBinds, OpsLeak, OpsReserve}
    \cup {OpsCompare(a, b) : a, b \in CmpWords}

Running == status = "running" /\ ip \in DOMAIN ops
Cur == ops[ip]
ReadRet(slot) == IF slot \in DOMAIN ret_stack THEN ret_stack[slot] ELSE 0

\* _start (lines 22-29)
Start ==
    /\ status = "boot"
    /\ ret_stack_rsp' = RetStackEnd
    /\ locals_stack_sp' = LocalsStackEnd
    /\ escaping_stack_sp' = EscapingStackEnd
    /\ argc' = Head(stack)
    /\ stack' = Tail(stack)
    /\ argv' = Len(stack')
    /\ ip' = 1
    /\ status' = "running"
    /\ UNCHANGED <<cvars, pvars, svars, hvars, ops, ret_stack, printed, exit_code>>

\* Push (lines 55-102)
RunPush ==
    /\ Running /\ Cur.op = "Push"
    /\ stack' = <<bytes(Cur.c)>> \o stack
    /\ ip' = ip + 1
    /\ UNCHANGED <<cvars, pvars, svars, hvars, mvars, ops, ret_stack, ret_stack_rsp, argc, argv, printed, status,
                   exit_code>>

\* Add (lines 405-415)
RunAdd ==
    /\ Running /\ Cur.op = "Add" /\ Len(stack) >= 2
    /\ LET rax == stack[1]
           rbx == stack[2]
       IN  stack' = <<rbx + rax>> \o Tail(Tail(stack))
    /\ ip' = ip + 1
    /\ UNCHANGED <<cvars, pvars, svars, hvars, mvars, ops, ret_stack, ret_stack_rsp, argc, argv, printed, status,
                   exit_code>>

\* a comparison block: rbx is popped, then rax, cmp rax, rbx sets the flags
\* and the conditional move of the instruction, when taken, puts 1 in rcx,
\* which is pushed
Rbx == stack[1]
Rax == stack[2]
Compared(taken) ==
    /\ Running /\ Len(stack) >= 2
    /\ LET rcx == IF taken THEN 1 ELSE 0
       IN  stack' = <<rcx>> \o Tail(Tail(stack))
    /\ ip' = ip + 1
    /\ UNCHANGED <<cvars, pvars, svars, hvars, mvars, ops, ret_stack, ret_stack_rsp, argc, argv,
                   printed, status, exit_code>>

\* the conditions of the conditional moves on the flags of cmp rax, rbx:
\* equal, not equal, and less, less or equal, greater, greater or equal of
\* the two words read as signed
cmove(rax, rbx) == rax = rbx
cmovne(rax, rbx) == rax # rbx
cmovl(rax, rbx) == rax < rbx
cmovle(rax, rbx) == rax <= rbx
cmovg(rax, rbx) == rax > rbx
cmovge(rax, rbx) == rax >= rbx

\* Ne (lines 441-454)
RunNe == Running /\ Cur.op = "Ne" /\ Compared(cmovne(Rax, Rbx))
\* Lt (lines 455-468)
RunLt == Running /\ Cur.op = "Lt" /\ Compared(cmovl(Rax, Rbx))
\* Ge (lines 469-482)
RunGe == Running /\ Cur.op = "Ge" /\ Compared(cmovge(Rax, Rbx))
\* Le (lines 483-496)
RunLe == Running /\ Cur.op = "Le" /\ Compared(cmovle(Rax, Rbx))
\* Gt (lines 497-510)
RunGt == Running /\ Cur.op = "Gt" /\ Compared(cmovg(Rax, Rbx))
\* Eq (lines 511-524)
RunEq == Running /\ Cur.op = "Eq" /\ Compared(cmove(Rax, Rbx))

\* Print: the word popped into rdi goes to the extern print (lines 273-281)
RunPrint ==
    /\ Running /\ Cur.op = "Print" /\ Len(stack) >= 1
    /\ printed' = Append(printed, Head(stack))
    /\ stack' = Tail(stack)
    /\ ip' = ip + 1
    /\ UNCHANGED <<cvars, pvars, svars, hvars, mvars, ops, ret_stack, ret_stack_rsp, argc, argv, status, exit_code>>

\* the address at which instruction i of the sequence is loaded, and back
CodeAddr(i) == 4194304 + i
IndexOf(a) == a - CodeAddr(0)

CallEntry(r, rsp, st) == [kind |-> "call", ret |-> r, rsp |-> rsp, stack |-> st]
BindEntry(v, rsp) == [kind |-> "bind", v |-> v, rsp |-> rsp]
Pop(h) == IF h = <<>> THEN <<>> ELSE Tail(h)

\* Call: the return address is pushed and control goes to the symbol (lines 540-547)
RunCall ==
    /\ Running /\ Cur.op = "Call"
    /\ \E t \in DOMAIN ops :
          /\ ops[t] = ProcOp(Cur.p)
          /\ ip' = t
    /\ stack' = <<CodeAddr(ip + 1)>> \o stack
    /\ shadow' = <<CallEntry(ip + 1, ret_stack_rsp, stack)>> \o shadow
    /\ UNCHANGED <<cvars, pvars, svars, mvars, ops, ret_stack, ret_stack_rsp, argc, argv,
                   printed, status, exit_code>>

RunProc_kept ==
    /\ Running /\ Cur.op = "Proc" /\ Len(stack) >= 1
    /\ ret_stack_rsp' = ret_stack_rsp - 1
    /\ ret_stack' = (ret_stack_rsp' :> Head(stack)) @@ ret_stack
    /\ ip' = ip + 1
    /\ UNCHANGED <<cvars, pvars, svars, hvars, mvars, ops, stack, argc, argv, printed, status,
                   exit_code>>

\* Proc: the return address moves to the return stack (lines 558-570)
RunProc ==
    /\ Running /\ Cur.op = "Proc" /\ Len(stack) >= 1
    /\ ret_stack_rsp' = ret_stack_rsp - 1
    /\ ret_stack' = (ret_stack_rsp' :> Head(stack)) @@ ret_stack
    /\ stack' = Tail(stack)
    /\ ip' = ip + 1
    /\ UNCHANGED <<cvars, pvars, svars, hvars, mvars, ops, argc, argv, printed, status,
                   exit_code>>

\* Return: the word on top of the return stack is pushed and ret jumps to it;
\* a word that is no address of the code ends the process (lines 526-539)
RunReturn ==
    /\ Running /\ Cur.op = "Return"
    /\ LET rdi == ReadRet(ret_stack_rsp)
       IN  IF IndexOf(rdi) \in DOMAIN ops
           THEN ip' = IndexOf(rdi) /\ status' = status
           ELSE ip' = ip /\ status' = "crashed"
    /\ ret_stack_rsp' = ret_stack_rsp + 1
    /\ shadow' = Pop(shadow)
    /\ UNCHANGED <<cvars, pvars, svars, mvars, ops, stack, ret_stack, argc, argv, printed,
                   exit_code>>

\* Bind: the popped word goes on the return stack (lines 197-208)
RunBind ==
    /\ Running /\ Cur.op = "Bind" /\ Len(stack) >= 1
    /\ ret_stack_rsp' = ret_stack_rsp - 1
    /\ ret_stack' = (ret_stack_rsp' :> Head(stack)) @@ ret_stack
    /\ stack' = Tail(stack)
    /\ ip' = ip + 1
    /\ shadow' = <<BindEntry(Head(stack), ret_stack_rsp)>> \o shadow
    /\ UNCHANGED <<cvars, pvars, svars, mvars, ops, argc, argv, printed, status, exit_code>>

RunUseBinding_below ==
    /\ Running /\ Cur.op = "UseBinding"
    /\ stack' = <<ReadRet(ret_stack_rsp - Cur.offset)>> \o stack
    /\ ip' = ip + 1
    /\ UNCHANGED <<cvars, pvars, svars, hvars, mvars, ops, ret_stack, ret_stack_rsp, argc, argv,
                   printed, status, exit_code>>

\* UseBinding: the word offset slots above the cursor is pushed (lines 209-220)
RunUseBinding ==
    /\ Running /\ Cur.op = "UseBinding"
    /\ stack' = <<ReadRet(ret_stack_rsp + Cur.offset)>> \o stack
    /\ ip' = ip + 1
    /\ UNCHANGED <<cvars, pvars, svars, hvars, mvars, ops, ret_stack, ret_stack_rsp, argc, argv,
                   printed, status, exit_code>>

\* Unbind: the cursor goes up one slot (lines 221-229)
RunUnbind ==
    /\ Running /\ Cur.op = "Unbind"
    /\ ret_stack_rsp' = ret_stack_rsp + 1
    /\ ip' = ip + 1
    /\ shadow' = Pop(shadow)
    /\ UNCHANGED <<cvars, pvars, svars, mvars, ops, stack, ret_stack, argc, argv, printed,
                   status, exit_code>>

\* ReserveEscaping: the escaping cursor goes down n bytes (lines 145-153)
RunReserveEscaping ==
    /\ Running /\ Cur.op = "ReserveEscaping"
    /\ escaping_stack_sp' = escaping_stack_sp - (Cur.n \div 8)
    /\ ip' = ip + 1
    /\ UNCHANGED <<cvars, pvars, svars, hvars, locals_stack_sp, ops, stack, ret_stack,
                   ret_stack_rsp, argc, argv, printed, status, exit_code>>

\* ReserveLocals: the locals cursor goes down n bytes (lines 166-174)
RunReserveLocals ==
    /\ Running /\ Cur.op = "ReserveLocals"
    /\ locals_stack_sp' = locals_stack_sp - (Cur.n \div 8)
    /\ ip' = ip + 1
    /\ UNCHANGED <<cvars, pvars, svars, hvars, escaping_stack_sp, ops, stack, ret_stack,
                   ret_stack_rsp, argc, argv, printed, status, exit_code>>

\* FreeLocals: the locals cursor goes up n bytes (lines 175-183)
RunFreeLocals ==
    /\ Running /\ Cur.op = "FreeLocals"
    /\ locals_stack_sp' = locals_stack_sp + (Cur.n \div 8)
    /\ ip' = ip + 1
    /\ UNCHANGED <<cvars, pvars, svars, hvars, escaping_stack_sp, ops, stack, ret_stack,
                   ret_stack_rsp, argc, argv, printed, status, exit_code>>

\* Exit: the exit system call with the popped word (lines 548-557)
RunExit ==
    /\ Running /\ Cur.op = "Exit" /\ Len(stack) >= 1
    /\ exit_code' = Head(stack)
    /\ stack' = Tail(stack)
    /\ status' = "exited"
    /\ UNCHANGED <<cvars, pvars, svars, hvars, mvars, ops, ip, ret_stack, ret_stack_rsp, argc, argv, printed>>

InitRun ==
    /\ items = <<>>
    /\ pc = "emitted"
    /\ coms = <<>>
    /\ ctl = <<>>
    /\ ret = NoConst
    /\ evals = <<>>
    /\ run = "first"
    /\ first = NoResult
    /\ ops \in RunPrograms
    /\ ip = 0
    /\ stack \in EntryStacks
    /\ ret_stack = <<>>
    /\ ret_stack_rsp = 0
    /\ locals_stack_sp = 0
    /\ escaping_stack_sp = 0
    /\ argc = 0
    /\ argv = 0
    /\ printed = <<>>
    /\ status = "boot"
    /\ exit_code = 0
    /\ source = <<>>
    /\ tokens = <<>>
    /\ parsed = NotParsed
    /\ sink = <<>>
    /\ emit_strings = <<>>
    /\ shadow = <<>>

NextRun ==
    \/ Start
    \/ RunPush
    \/ RunAdd
    \/ RunNe
    \/ RunLt
    \/ RunGe
    \/ RunLe
    \/ RunGt
    \/ RunEq
    \/ RunPrint
    \/ RunCall
    \/ RunProc
    \/ RunReturn
    \/ RunBind
    \/ RunUseBinding
    \/ RunUnbind
    \/ RunReserveEscaping
    \/ RunReserveLocals
    \/ RunFreeLocals
    \/ RunExit

SpecRun == InitRun /\ [][NextRun]_vars

(* C3: the program generated for proc main do 1 2 + print end, run from the
   process entry point, calls print with 3 and exits with status 0: the word
   Exit pops is 0. *)
C3_ExitZero ==
    (ops = OpsAdd /\ status = "exited") => (printed = <<3>> /\ exit_code = 0)

(* C19: at procedure entry the return address leaves the operand stack for
   the return stack, so that the body starts on the operands the caller had
   at the Call; a Return executed with the cursor where procedure entry left
   it (binds and unbinds balanced) resumes at the instruction after the
   matching Call with the cursor at its value just before that Call. *)
Entered == shadow # <<>> /\ Head(shadow).kind = "call"

C19_Entry ==
    (Running /\ Cur.op = "Proc" /\ Entered /\ stack # <<>>)
        => /\ stack' = Head(shadow).stack
           /\ ret_stack_rsp' = Head(shadow).rsp - 1
           /\ ret_stack'[ret_stack_rsp'] = CodeAddr(Head(shadow).ret)

C19_Resume ==
    (Running /\ Cur.op = "Return" /\ Entered /\ ret_stack_rsp = Head(shadow).rsp - 1)
        => /\ ip' = Head(shadow).ret
           /\ ops[ip' - 1].op = "Call"
           /\ ret_stack_rsp' = Head(shadow).rsp
           /\ status' = "running"

C19_CallReturn == [][C19_Entry /\ C19_Resume]_vars

\* the innermost of three nested calls has returned to the middle one, which
\* holds the result on the operands it was entered with
C19_Witness ==
    /\ ops = OpsNest /\ status = "running"
    /\ ip = 12 /\ Len(shadow) = 2 /\ Head(shadow).ret = 6
    /\ Len(stack) >= 1 /\ Head(stack) = 12
    /\ ret_stack_rsp = Head(shadow).rsp - 1

(* C20: with the k+1 latest return-stack entries all bound values, none of
   them unbound since, UseBinding(k) pushes the value bound k binds before
   the latest and leaves the return stack and its cursor as they were; Unbind
   moves the cursor up one slot, to where it was before the latest bind, and
   changes no word. *)
BoundAbove(k) ==
    /\ Len(shadow) > k
    /\ \A j \in 1..(k + 1) : shadow[j].kind = "bind"

C20_Use ==
    (Running /\ Cur.op = "UseBinding" /\ BoundAbove(Cur.offset))
        => /\ stack' = <<shadow[Cur.offset + 1].v>> \o stack
           /\ ret_stack' = ret_stack
           /\ ret_stack_rsp' = ret_stack_rsp
           /\ ip' = ip + 1

C20_Unbind ==
    (Running /\ Cur.op = "Unbind")
        => /\ ret_stack_rsp' = ret_stack_rsp + 1
           /\ ret_stack' = ret_stack
           /\ stack' = stack
           /\ BoundAbove(0) => ret_stack_rsp' = Head(shadow).rsp

C20_Bindings == [][C20_Use /\ C20_Unbind]_vars

\* three values bound, the oldest just read with offset 2 and printed, and
\* the first unbind done
C20_Witness ==
    /\ ops = OpsBinds /\ status = "running"
    /\ printed = <<1, 2, 3>>
    /\ Len(shadow) = 3 /\ shadow[1].kind = "bind" /\ shadow[1].v = 2
    /\ ops[ip].op = "Unbind"

(* C22: while the generated program runs, the return, locals and escaping
   cursors each stay inside the buffer reserved for them, from its first
   slot to its end label. *)
C22_CursorsInside ==
    status = "running" =>
        /\ ret_stack_rsp \in 0..RetStackEnd
        /\ locals_stack_sp \in 0..LocalsStackEnd
        /\ escaping_stack_sp \in 0..EscapingStackEnd

\* the order of two words read as unsigned: a word at or above 2^63 (written
\* negative) is above every word below 2^63
Below(a, b) ==
    \/ a >= 0 /\ b < 0
    \/ (a < 0 <=> b < 0) /\ a < b

Relation(op, a, b) ==
    CASE op = "Eq" -> a = b
      [] op = "Ne" -> a # b
      [] op = "Lt" -> Below(a, b)
      [] op = "Le" -> Below(a, b) \/ a = b
      [] op = "Gt" -> Below(b, a)
      [] op = "Ge" -> Below(b, a) \/ a = b

Comparisons == {"Eq", "Ne", "Lt", "Le", "Gt", "Ge"}

C25_Step ==
    (Running /\ Cur.op \in Comparisons /\ Len(stack) >= 2) =>
        LET b == stack[1]
            a == stack[2]
        IN  stack' = <<IF Relation(Cur.op, a, b) THEN 1 ELSE 0>> \o Tail(Tail(stack))

(* C25: every comparison pops the right operand b, then the left operand a,
   and pushes 1 if a OP b holds and 0 if not, where lt, le, gt and ge order
   the two words as unsigned 64-bit values. *)
C25_Unsigned == [][C25_Step]_vars

----------------------------------------------------------------------------
(* The lexer (src/src/lexer.rs) on a source text of whitespace-separated    *)
(* lexemes, and the parser (src/src/hir.rs) on its tokens.                   *)

TBool(b) == [t |-> "Bool", b |-> b]
TWord(w) == [t |-> "Word", w |-> w]
TKeyWord(k) == [t |-> "KeyWord", k |-> k]
TNum(n) == [t |-> "Num", n |-> n]
TIgnore == [t |-> "Ignore"]
TSigSep == [t |-> "SigSep"]

\* the decimal lexemes of the inputs, with what n.parse::<u64>() gives
NumLexemes == {"1", "2"}
ParseU64(n) == IF n = "1" THEN 1 ELSE 2

\* the spellings the keyword alternative of the lexer maps
KeyWords ==
    {"include", "return", "cond", "if", "else", "proc", "while", "do", "bind",
     "const", "mem", "var", "struct", "cast", "end"}

Lexing == parsed = NotParsed /\ Len(tokens) < Len(source)
Lexeme == source[Len(tokens) + 1]
LexVars == <<cvars, ops, ip, stack, ret_stack, ret_stack_rsp, mvars, argc, argv, printed,
             status, exit_code, source, parsed, svars, hvars>>

\* token: the alternatives of the choice, in its order (lines 173-184)
LexNum ==
    /\ Lexing /\ Lexeme \in NumLexemes
    /\ tokens' = Append(tokens, TNum(Lexeme))
    /\ UNCHANGED LexVars

LexSigSep ==
    /\ Lexing /\ Lexeme \notin NumLexemes /\ Lexeme = ":"
    /\ tokens' = Append(tokens, TSigSep)
    /\ UNCHANGED LexVars

LexIgnore ==
    /\ Lexing /\ Lexeme \notin NumLexemes \cup {":"} /\ Lexeme = "_"
    /\ tokens' = Append(tokens, TIgnore)
    /\ UNCHANGED LexVars

LexBool ==
    /\ Lexing /\ Lexeme \notin NumLexemes \cup {":", "_"}
    /\ Lexeme \in {"true", "false"}
    /\ tokens' = Append(tokens, TBool(Lexeme = "true"))
    /\ UNCHANGED LexVars

LexKeyWord ==
    /\ Lexing /\ Lexeme \notin NumLexemes \cup {":", "_", "true", "false"}
    /\ Lexeme \in KeyWords
    /\ tokens' = Append(tokens, TKeyWord(Lexeme))
    /\ UNCHANGED LexVars

LexWord ==
    /\ Lexing /\ Lexeme \notin NumLexemes \cup {":", "_", "true", "false"} \cup KeyWords
    /\ tokens' = Append(tokens, TWord(Lexeme))
    /\ UNCHANGED LexVars

\* the token at place i, none past the end
TokAt(ts, i) == IF i \in DOMAIN ts THEN ts[i] ELSE [t |-> "EndOfInput"]
IsKeyWord(tok, k) == tok.t = "KeyWord" /\ tok.k = k

Fail == [ok |-> FALSE]
Got(v, next) == [ok |-> TRUE, v |-> v, next |-> next]

\* ty
TypeOf(w) == IF w = "int" THEN "I64" ELSE IF w = "uint" THEN "U64" ELSE "Bool"
ty(ts, i) ==
    LET tok == TokAt(ts, i)
    IN  IF tok.t = "Word" /\ tok.w \in {"int", "uint", "bool"}
        THEN Got(TypeOf(tok.w), i + 1)
        ELSE Fail

\* the spellings word() rejects
NotWords ==
    {"drop", "dup", "swap", "over", "&?&", "&?", "print", "=", "!=", "<", "<=", ">", ">="}

\* word
word(ts, i) ==
    LET tok == TokAt(ts, i)
    IN  IF tok.t = "Word" /\ tok.w \notin NotWords THEN Got(Word(tok.w), i + 1) ELSE Fail

\* the spellings intrinsic() maps, each with its intrinsic
IntrinsicOf ==
    [w \in {"drop", "dup", "swap", "over", "&?&", "&?", "print", "+", "-", "*",
            "divmod", "=", "!=", "<", "<=", ">", ">="} |->
        CASE w = "drop" -> "Drop" [] w = "dup" -> "Dup" [] w = "swap" -> "Swap"
          [] w = "over" -> "Over" [] w = "&?&" -> "CompStop" [] w = "&?" -> "Dump"
          [] w = "print" -> "Print" [] w = "+" -> "Add" [] w = "-" -> "Sub"
          [] w = "*" -> "Mul" [] w = "divmod" -> "Divmod" [] w = "=" -> "Eq"
          [] w = "!=" -> "Ne" [] w = "<" -> "Lt" [] w = "<=" -> "Le"
          [] w = ">" -> "Gt" [] w = ">=" -> "Ge"]

\* intrinsic
intrinsic(ts, i) ==
    LET tok == TokAt(ts, i)
    IN  IF tok.t = "Word" /\ tok.w \in DOMAIN IntrinsicOf
        THEN Got(Intrinsic(IntrinsicOf[tok.w]), i + 1)
        ELSE Fail

\* word_or_intrinsic: choice((intrinsic(), word()))
word_or_intrinsic(ts, i) ==
    IF intrinsic(ts, i).ok THEN intrinsic(ts, i) ELSE word(ts, i)

\* identifier
identifier(ts, i) ==
    LET tok == TokAt(ts, i)
    IN  IF tok.t = "Word" THEN Got(tok.w, i + 1) ELSE Fail

\* body: the bool alternative
bool(ts, i) ==
    LET tok == TokAt(ts, i)
    IN  IF tok.t = "Word" /\ tok.w \in {"true", "false"}
        THEN Got(Literal(Bool(tok.w = "true")), i + 1)
        ELSE Fail

\* body: the num alternative
num(ts, i) ==
    LET tok == TokAt(ts, i)
    IN  IF tok.t = "Num" THEN Got(Literal(U64(ParseU64(tok.n))), i + 1) ELSE Fail

\* body: choice((name_type, ignore))
binding(ts, i) ==
    LET name == identifier(ts, i)
        t == ty(ts, name.next + 1)
    IN  IF name.ok /\ TokAt(ts, name.next).t = "SigSep" /\ t.ok
        THEN Got(BindName(name.v, t.v), t.next)
        ELSE IF TokAt(ts, i).t = "Ignore" THEN Got(BindIgnore, i + 1)
        ELSE Fail

\* the value of an expression computed once and used several times
Only(S) == CHOOSE x \in S : TRUE

\* repeated() over binding
RECURSIVE bindings(_, _)
bindings(ts, i) ==
    Only({IF b.ok
          THEN Only({Got(<<b.v>> \o r.v, r.next) : r \in {bindings(ts, b.next)}})
          ELSE Got(<<>>, i) : b \in {binding(ts, i)}})

RECURSIVE body(_, _), node(_, _), cond(_, _), while_(_, _), bind(_, _)

\* body: the if alternative
cond(ts, i) ==
    IF ~IsKeyWord(TokAt(ts, i), "if") THEN Fail
    ELSE Only({IF IsKeyWord(TokAt(ts, truth.next), "else")
               THEN Only({IF IsKeyWord(TokAt(ts, lie.next), "end")
                          THEN Got(If(truth.v, Some(lie.v)), lie.next + 1)
                          ELSE Fail : lie \in {body(ts, truth.next + 1)}})
               ELSE IF IsKeyWord(TokAt(ts, truth.next), "end")
               THEN Got(If(truth.v, None), truth.next + 1)
               ELSE Fail : truth \in {body(ts, i + 1)}})

\* body: the while alternative
while_(ts, i) ==
    IF ~IsKeyWord(TokAt(ts, i), "while") THEN Fail
    ELSE Only({IF ~IsKeyWord(TokAt(ts, c.next), "do") THEN Fail
               ELSE Only({IF IsKeyWord(TokAt(ts, b.next), "end")
                          THEN Got(While(c.v, b.v), b.next + 1)
                          ELSE Fail : b \in {body(ts, c.next + 1)}})
               : c \in {body(ts, i + 1)}})

\* body: the bind alternative
bind(ts, i) ==
    IF ~IsKeyWord(TokAt(ts, i), "bind") THEN Fail
    ELSE Only({IF bs.v = <<>> \/ ~IsKeyWord(TokAt(ts, bs.next), "do") THEN Fail
               ELSE Only({IF IsKeyWord(TokAt(ts, b.next), "end")
                          THEN Got(Bind(bs.v, b.v), b.next + 1)
                          ELSE Fail : b \in {body(ts, bs.next + 1)}})
               : bs \in {bindings(ts, i + 1)}})

\* body: choice((bool, word_or_intrinsic(), num, cond, while_, bind)); the
\* first three take no keyword token and the last three start with one
node(ts, i) ==
    IF TokAt(ts, i).t = "KeyWord"
    THEN Only({IF c.ok THEN c
               ELSE Only({IF w.ok THEN w ELSE bind(ts, i) : w \in {while_(ts, i)}})
               : c \in {cond(ts, i)}})
    ELSE IF bool(ts, i).ok THEN bool(ts, i)
    ELSE IF word_or_intrinsic(ts, i).ok THEN word_or_intrinsic(ts, i)
    ELSE num(ts, i)

\* body: the repetition of the choice
body(ts, i) ==
    Only({IF n.ok
          THEN Only({Got(<<n.v>> \o r.v, r.next) : r \in {body(ts, n.next)}})
          ELSE Got(<<>>, i) : n \in {node(ts, i)}})

\* ty().repeated()
RECURSIVE types(_, _)
types(ts, i) ==
    Only({IF t.ok
          THEN Only({Got(<<t.v>> \o r.v, r.next) : r \in {types(ts, t.next)}})
          ELSE Got(<<>>, i) : t \in {ty(ts, i)}})

\* proc: the signature
signature(ts, i) ==
    Only({IF TokAt(ts, ins.next).t = "SigSep" /\ outs.v # <<>>
          THEN Got([ins |-> ins.v, outs |-> outs.v], outs.next)
          ELSE Got([ins |-> ins.v, outs |-> <<>>], ins.next)
          : ins \in {types(ts, i)}, outs \in {types(ts, types(ts, i).next + 1)}})

TopProc(sig, b) == [top |-> "Proc", signature |-> sig, body |-> b]
TopConst(b, t) == [top |-> "Const", body |-> b, ty |-> t]

\* proc
proc(ts, i) ==
    IF ~IsKeyWord(TokAt(ts, i), "proc") \/ ~identifier(ts, i + 1).ok THEN Fail
    ELSE Only({IF ~IsKeyWord(TokAt(ts, sig.next), "do") THEN Fail
               ELSE Only({IF IsKeyWord(TokAt(ts, b.next), "end")
                          THEN Got([name |-> identifier(ts, i + 1).v,
                                    item |-> TopProc(sig.v, b.v)], b.next + 1)
                          ELSE Fail : b \in {body(ts, sig.next + 1)}})
               : sig \in {signature(ts, i + 2)}})

\* constant
constant(ts, i) ==
    IF ~IsKeyWord(TokAt(ts, i), "const") \/ ~identifier(ts, i + 1).ok
       \/ TokAt(ts, i + 2).t # "SigSep" \/ ~ty(ts, i + 3).ok
       \/ ~IsKeyWord(TokAt(ts, i + 4), "do")
    THEN Fail
    ELSE Only({IF IsKeyWord(TokAt(ts, b.next), "end")
               THEN Got([name |-> identifier(ts, i + 1).v,
                         item |-> TopConst(b.v, ty(ts, i + 3).v)], b.next + 1)
               ELSE Fail : b \in {body(ts, i + 5)}})

\* procs: choice((proc(), constant())).repeated(), collected into a map
RECURSIVE toplevels(_, _, _)
toplevels(ts, i, map) ==
    Only({IF it.ok
          THEN toplevels(ts, it.next, (it.v.name :> it.v.item) @@ map)
          ELSE Got(map, i)
          : it \in {IF IsKeyWord(TokAt(ts, i), "proc") THEN proc(ts, i)
                    ELSE constant(ts, i)}})

\* procs: the repetition, then the end of the input
procs(ts) ==
    Only({IF r.next = Len(ts) + 1
          THEN [state |-> "ok", items |-> r.v]
          ELSE [state |-> "error", at |-> r.next] : r \in {toplevels(ts, 1, <<>>)}})

\* the tokens of the whole source go to the parser
Parse ==
    /\ parsed = NotParsed /\ Len(tokens) = Len(source)
    /\ parsed' = procs(tokens)
    /\ UNCHANGED <<cvars, ops, ip, stack, ret_stack, ret_stack_rsp, mvars, argc, argv,
                   printed, status, exit_code, source, tokens, svars, hvars>>

\* source texts: a procedure or a constant of each name over each block
SourceNames == DOMAIN IntrinsicOf \cup {"main", "f", "true"}
BoolBlock == <<"true", "if", "1", "else", "2", "end", "drop">>
SourceBlocks ==
    {<<>>, <<"1", "2", "+", "print">>, BoolBlock,
     <<"1", "bind", "_", "x", ":", "int", "do", "x", "end">>,
     <<"while", "f", "do", "end">>}
    \cup {<<"1", w, "f">> : w \in DOMAIN IntrinsicOf \cup {"false"}}
Sources ==
    {<<"proc", n, "do">> \o b \o <<"end">> : n \in SourceNames, b \in SourceBlocks}
    \cup {<<"const", n, ":", "uint", "do">> \o b \o <<"end">> :
            n \in SourceNames, b \in SourceBlocks}
    \cup {<<"proc", "f", "int", ":", "bool", "do", "end", "const", "f", ":", "int", "do", "end">>}

InitParse ==
    /\ items = <<>>
    /\ pc = "off"
    /\ coms = <<>>
    /\ ctl = <<>>
    /\ ret = NoConst
    /\ evals = <<>>
    /\ run = "first"
    /\ first = NoResult
    /\ ops = <<>>
    /\ ip = 0
    /\ stack = <<>>
    /\ ret_stack = <<>>
    /\ ret_stack_rsp = 0
    /\ locals_stack_sp = 0
    /\ escaping_stack_sp = 0
    /\ argc = 0
    /\ argv = 0
    /\ printed = <<>>
    /\ status = "off"
    /\ exit_code = 0
    /\ source \in Sources
    /\ tokens = <<>>
    /\ parsed = NotParsed
    /\ sink = <<>>
    /\ emit_strings = <<>>
    /\ shadow = <<>>

NextParse ==
    \/ LexNum
    \/ LexSigSep
    \/ LexIgnore
    \/ LexBool
    \/ LexKeyWord
    \/ LexWord
    \/ Parse

SpecParse == InitParse /\ [][NextParse]_vars

BoolSource == <<"proc", "main", "do">> \o BoolBlock \o <<"end">>

(* C15: the source words true and false in a block go through the lexer and
   the parser to a boolean literal node: proc main do true if 1 else 2 end
   drop end parses, to a procedure main whose body is the literal true, the
   conditional and drop. *)
C15_BoolParses ==
    (source = BoolSource /\ parsed # NotParsed) =>
        /\ parsed.state = "ok"
        /\ parsed.items["main"].body =
              <<Literal(Bool(TRUE)), If(<<Literal(U64(1))>>, Some(<<Literal(U64(2))>>)),
                Intrinsic("Drop")>>

\* the names the word references of a block carry
RECURSIVE WordsOf(_)
WordsOf(b) ==
    IF b = <<>> THEN {}
    ELSE LET n == Head(b)
         IN  (CASE n.k = "Word" -> {n.w}
                [] n.k = "If" ->
                     WordsOf(n.truth) \cup (IF n.lie.some THEN WordsOf(n.lie.v) ELSE {})
                [] n.k = "While" -> WordsOf(n.cond) \cup WordsOf(n.body)
                [] n.k = "Bind" -> WordsOf(n.body)
                [] OTHER -> {})
             \cup WordsOf(Tail(b))

(* C16: a word token spelled as an intrinsic is never a plain word reference
   of a parsed block and never the name of a parsed procedure or constant. *)
C16_NoIntrinsicNames ==
    parsed.state = "ok" =>
        \A n \in DOMAIN parsed.items :
            /\ n \notin DOMAIN IntrinsicOf
            /\ WordsOf(parsed.items[n].body) \cap DOMAIN IntrinsicOf = {}

----------------------------------------------------------------------------
(* The code generator: compile of src/src/emit.rs, writing the expansion of  *)
(* each instruction to the sink.  The inputs have no static memory regions. *)

\* the texts of the inputs' pools: their length and their bytes in decimal
StrLen(s) == IF s = "st" THEN 2 ELSE 1
StrBytes(s) == IF s = "st" THEN "115,116" ELSE "115"

\* {:?} of an immediate and of an instruction
DebugConst(c) ==
    CASE c.ty = "Bool" -> "Bool(" \o (IF c.b THEN "true" ELSE "false") \o ")"
      [] c.ty = "U64" -> "U64(" \o ToString(c.u) \o ")"
      [] c.ty = "I64" -> "I64(" \o ToString(c.i) \o ")"
DebugOp(o) ==
    CASE o.op = "Push" -> "Push(" \o DebugConst(o.c) \o ")"
      [] o.op = "PushStr" -> "PushStr(" \o ToString(o.i) \o ")"
      [] o.op = "UseBinding" -> "UseBinding(" \o ToString(o.offset) \o ")"
      [] o.op = "Call" -> "Call(\"" \o o.p \o "\")"
      [] o.op \in {"Jump", "JumpF"} -> o.op \o "(\"" \o o.l \o "\")"
      [] OTHER -> o.op

\* the lines under the comment line of an instruction
AsmOf(o) ==
    CASE o.op = "Push" -> <<"mov rax, " \o ToString(bytes(o.c)), "push rax">>
      [] o.op = "PushStr" ->
           <<";   mov rax, len", "push " \o ToString(StrLen(emit_strings[o.i + 1])),
             "push str_" \o ToString(o.i)>>
      [] o.op = "Dup" -> <<"pop rax", "push rax", "push rax">>
      [] o.op = "Swap" -> <<"pop rax", "pop rbx", "push rax", "push rbx">>
      [] o.op = "Over" -> <<"pop rax", "pop rbx", "push rbx", "push rax", "push rbx">>
      [] o.op = "Drop" -> <<"pop rax">>
      [] o.op = "Bind" ->
           <<"pop rbx", "mov rax, 8", "sub [ret_stack_rsp], rax",
             "mov QWORD rax, [ret_stack_rsp]", "mov QWORD [rax], rbx">>
      [] o.op = "UseBinding" ->
           <<"mov rax, 8 * " \o ToString(o.offset), "mov QWORD rbx, [ret_stack_rsp]",
             "add rbx, rax", "mov QWORD rax, [rbx]", "push rax">>
      [] o.op = "Unbind" -> <<"mov rax, 8", "add [ret_stack_rsp], rax">>
      [] o.op = "Print" -> <<"pop rdi", "call print">>
      [] o.op = "Add" -> <<"pop rax", "pop rbx", "add rbx, rax", "push rbx">>
      [] o.op = "Return" ->
           <<"; load return adderss", "mov QWORD rax, [ret_stack_rsp]",
             "mov QWORD rdi, [rax]", "mov rax, 8", "add [ret_stack_rsp], rax", "push rdi">>
      [] o.op = "Call" -> <<"call " \o o.p>>
      [] o.op = "Exit" -> <<"pop rdi", "mov rax, 60", "syscall">>
      [] o.op = "JumpF" -> <<"pop rax", "test rax, rax", "jz " \o o.l>>
      [] o.op = "Jump" -> <<"jmp " \o o.l>>

\* what the arm of an instruction writes
Expansion(o) ==
    CASE o.op = "Label" -> <<o.l \o ":">>
      [] o.op = "Proc" ->
           <<o.l \o ":", "; save return address", "pop rdi", "mov rax, 8",
             "sub [ret_stack_rsp], rax", "mov QWORD rax, [ret_stack_rsp]",
             "mov QWORD [rax], rdi">>
      [] o.op = "Return" -> AsmOf(o) \o <<"; " \o DebugOp(o), "ret">>
      [] OTHER -> <<"; " \o DebugOp(o)>> \o AsmOf(o)

\* the instructions of the generated sequences, and the sequences
EmitOps ==
    {Push(U64(1)), Push(Bool(TRUE)), Push(I64(-1)), Push(Str("s")), PushStr(0), PushStr(1),
     Call("f"), ProcOp("f"), Label(".f0"), Jump(".f0"), JumpF(".f0"), JumpT(".f0"),
     UseBinding(1), Return, Exit}
    \cup {Op0(n) : n \in {"Dup", "Swap", "Over", "Drop", "Bind", "Unbind", "Print", "Add",
                          "Dump"}}
EmitPrograms == UNION {[1..n -> EmitOps] : n \in 0..MaxOps} \cup {OpsAdd}
EmitPools == {<<>>, <<"s">>, <<"st", "s">>}

Emitting == status = "emit" /\ ip \in DOMAIN ops
EmitVars == <<cvars, pvars, mvars, ops, stack, ret_stack, ret_stack_rsp, argc, argv, printed,
              exit_code, emit_strings, hvars>>

\* the instructions whose arm stops the code generator
Aborts(o) ==
    \/ o.op = "JumpT"
    \/ o.op = "Push" /\ o.c.ty = "Str"
    \/ o.op = "PushStr" /\ o.i >= Len(emit_strings)

\* the first write: the header and _start (lines 14-32)
EmitStart ==
    /\ status = "emit" /\ ip = 0
    /\ sink' = sink \o <<"BITS 64", "section .text", "global _start", "extern print",
                        "_start:", "mov QWORD [ret_stack_rsp], ret_stack_end",
                        "mov QWORD [locals_stack_sp], locals_stack_end",
                        "mov QWORD [escaping_stack_sp], escaping_stack_end",
                        "; set up args", "pop rax", "mov [argc], rax", "mov [argv], rsp">>
    /\ ip' = 1
    /\ UNCHANGED <<EmitVars, status>>

\* an arm that writes (lines 35-595)
EmitOp ==
    /\ Emitting /\ Cur.op # "Dump" /\ ~Aborts(Cur)
    /\ sink' = sink \o Expansion(Cur)
    /\ ip' = ip + 1
    /\ UNCHANGED <<EmitVars, status>>

\* Dump => {} (line 596)
EmitDump ==
    /\ Emitting /\ Cur.op = "Dump"
    /\ ip' = ip + 1
    /\ UNCHANGED <<EmitVars, status, sink>>

\* JumpT(_) => todo!() (line 597)
EmitJumpT ==
    /\ Emitting /\ Cur.op = "JumpT"
    /\ status' = "panic"
    /\ UNCHANGED <<EmitVars, ip, sink>>

\* Push(IConst::Str(_)) => unreachable!() (line 101)
EmitPushStrConst ==
    /\ Emitting /\ Cur.op = "Push" /\ Cur.c.ty = "Str"
    /\ status' = "panic"
    /\ UNCHANGED <<EmitVars, ip, sink>>

\* PushStr(i): strings[*i] past the end of the pool (line 51)
EmitPushStrPast ==
    /\ Emitting /\ Cur.op = "PushStr" /\ Cur.i >= Len(emit_strings)
    /\ status' = "panic"
    /\ UNCHANGED <<EmitVars, ip, sink>>

\* after the loop: the data section with the pool, the bss section, Ok(())
\* (lines 600-650)
EmitData ==
    /\ status = "emit" /\ ip = Len(ops) + 1
    /\ LET str(i) == <<"str_" \o ToString(i - 1) \o ":", "db " \o StrBytes(emit_strings[i])>>
           pool == IF emit_strings = <<>> THEN <<>>
                   ELSE IF Len(emit_strings) = 1 THEN str(1)
                   ELSE str(1) \o str(2)
       IN  sink' = sink \o <<"section .data">> \o pool
                   \o <<"section .bss", "ret_stack_rsp: resq 1",
                        "ret_stack: resb " \o ToString(RetStackBytes), "ret_stack_end:",
                        "locals_stack_sp: resq 1",
                        "locals_stack: resb " \o ToString(LocalsStackBytes),
                        "locals_stack_end:", "escaping_stack_sp: resq 1",
                        "escaping_stack: resb " \o ToString(EscapingStackBytes),
                        "escaping_stack_end:", "argc: resq 1", "argv: resq 1">>
    /\ status' = "ok"
    /\ UNCHANGED <<EmitVars, ip>>

\* a write to the sink returns an error, which compile returns
SinkFails ==
    /\ status = "emit"
    /\ ip = 0 \/ ip = Len(ops) + 1 \/ (ip \in DOMAIN ops /\ Cur.op # "Dump" /\ ~Aborts(Cur))
    /\ status' = "io_error"
    /\ UNCHANGED <<EmitVars, ip, sink>>

InitEmit ==
    /\ items = <<>>
    /\ pc = "off"
    /\ coms = <<>>
    /\ ctl = <<>>
    /\ ret = NoConst
    /\ evals = <<>>
    /\ run = "first"
    /\ first = NoResult
    /\ ops \in EmitPrograms
    /\ ip = 0
    /\ stack = <<>>
    /\ ret_stack = <<>>
    /\ ret_stack_rsp = 0
    /\ locals_stack_sp = 0
    /\ escaping_stack_sp = 0
    /\ argc = 0
    /\ argv = 0
    /\ printed = <<>>
    /\ status = "emit"
    /\ exit_code = 0
    /\ source = <<>>
    /\ tokens = <<>>
    /\ parsed = NotParsed
    /\ sink = <<>>
    /\ emit_strings \in EmitPools
    /\ shadow = <<>>

NextEmit ==
    \/ EmitStart
    \/ EmitOp
    \/ EmitDump
    \/ EmitJumpT
    \/ EmitPushStrConst
    \/ EmitPushStrPast
    \/ EmitData
    \/ SinkFails

SpecEmit == InitEmit /\ [][NextEmit]_vars

(* C18: the code generator writes one or more lines for every instruction
   and stops only when the sink fails: on no instruction sequence does it
   abort, whatever instructions the sequence holds (the debug no-op,
   jump-if-true and the push of an immediate included). *)
C18_EmitTotal ==
    /\ status # "panic"
    /\ status = "ok" => Len(sink) >= 12 + Len(ops) + 13

====
